---- MODULE Spec2Model ----
(***************************************************************************)
(* Model of the analytics engine of device-activity-tracker:               *)
(*   src/src/analytics/networkIntelligence.ts  (NetworkIntelligence)       *)
(*   src/src/analytics/analytics.ts            (AnalyticsEngine, endpoints)*)
(*   src/src/database/models.ts                (record shapes)             *)
(*                                                                         *)
(* Numbers.  RTTs, timestamps and durations are whole milliseconds.        *)
(* Quotients the code leaves as fractions (means, percentages) are carried *)
(* as exact rationals [n |-> numerator, d |-> denominator] in lowest       *)
(* terms.  Math.sqrt is carried as the whole part of the root; Math.round  *)
(* is round-half-up as in ECMAScript.  The state durations, which the code *)
(* accumulates with += in an order that depends on the input, are carried  *)
(* as IEEE-754 binary64 values with the rounding of every operation.       *)
(***************************************************************************)
EXTENDS Integers, Sequences, FiniteSets, TLC

VARIABLES measurements, transitions,
          sessionStartTime, sessionEndTime, now,
          result, previous, arguments,
          rtt_measurements, inserted,
          trackers, running, handlers

vars == <<measurements, transitions,
          sessionStartTime, sessionEndTime, now, result, previous, arguments,
          rtt_measurements, inserted, trackers, running, handlers>>

\* what an analyzer is given and returns
analysis == <<measurements, transitions,
              sessionStartTime, sessionEndTime, now, result, previous, arguments>>

\* the rows of the table with the objects they were inserted from, and the
\* trackers of the socket server
store == <<rtt_measurements, inserted>>
server == <<trackers, running, handlers>>

(***************************************************************************)
(* Arithmetic helpers                                                      *)
(***************************************************************************)
Abs(x) == IF x < 0 THEN -x ELSE x

RECURSIVE GCD(_, _)
GCD(a, b) == IF b = 0 THEN a ELSE GCD(b, a % b)

\* the rational n/d (d # 0) in lowest terms with a positive denominator
Rat(n, d) ==
    LET g == GCD(Abs(n), Abs(d))
        s == IF d < 0 THEN -1 ELSE 1
    IN  [n |-> s * (n \div g), d |-> s * (d \div g)]

RInt(k) == [n |-> k, d |-> 1]
RAdd(a, b) == Rat(a.n * b.d + b.n * a.d, a.d * b.d)
RSub(a, b) == Rat(a.n * b.d - b.n * a.d, a.d * b.d)
RLt(a, b) == a.n * b.d < b.n * a.d
RLe(a, b) == a.n * b.d <= b.n * a.d
RMax(a, b) == IF RLt(a, b) THEN b ELSE a
RMin(a, b) == IF RLt(b, a) THEN b ELSE a

\* Math.round of the non-negative rational n/d: round half up
MathRound(n, d) == (n \div d) + (IF 2 * (n % d) >= d THEN 1 ELSE 0)

\* whole part of Math.sqrt(x), x >= 0
RECURSIVE SqrtSearch(_, _, _)
SqrtSearch(x, lo, hi) ==
    IF lo >= hi THEN lo
    ELSE LET mid == (lo + hi + 1) \div 2
         IN  IF mid <= x \div mid THEN SqrtSearch(x, mid, hi)
             ELSE SqrtSearch(x, lo, mid - 1)

MathSqrt(x) == IF x <= 0 THEN 0 ELSE SqrtSearch(x, 1, x)

(***************************************************************************)
(* IEEE-754 binary64, the arithmetic of a JavaScript number, for            *)
(* non-negative values: m * 2^exp with a 53-bit significand m kept as two   *)
(* limbs (m = hi * 2^26 + lo, 2^26 <= hi < 2^27), or zero.  Results are     *)
(* rounded to nearest, ties to even.                                        *)
(***************************************************************************)
Zero64 == [hi |-> 0, lo |-> 0, exp |-> 0]

\* the significand taken one unit up, renormalised when it reaches 2^53
Successor64(hi, lo, exp) ==
    IF lo + 1 < 2^26 THEN [hi |-> hi, lo |-> lo + 1, exp |-> exp]
    ELSE IF hi + 1 < 2^27 THEN [hi |-> hi + 1, lo |-> 0, exp |-> exp]
    ELSE [hi |-> 2^26, lo |-> 0, exp |-> exp + 1]

Round64(hi, lo, exp, roundUp) ==
    IF roundUp THEN Successor64(hi, lo, exp) ELSE [hi |-> hi, lo |-> lo, exp |-> exp]

\* long division n / d (n >= 0, d > 0): the quotient gains one bit per step
\* until the significand holds 53 bits; the rest decides the rounding
RECURSIVE Quotient64(_, _, _, _, _)
Quotient64(hi, lo, exp, rest, d) ==
    IF hi >= 2^26
    THEN LET guard == 2 * rest >= d
             sticky == 2 * rest - (IF guard THEN d ELSE 0) > 0
         IN  Round64(hi, lo, exp, guard /\ (sticky \/ lo % 2 = 1))
    ELSE LET bit == IF 2 * rest >= d THEN 1 ELSE 0
             low == 2 * lo + bit
         IN  Quotient64(2 * hi + low \div 2^26, low % 2^26, exp - 1,
                        2 * rest - bit * d, d)

\* the number n / d
Div64(n, d) ==
    IF n = 0 THEN Zero64
    ELSE Quotient64((n \div d) \div 2^26, (n \div d) % 2^26, 0, n % d, d)

\* the significand with three more bits (guard, round, sticky): h * 2^28 + l
Extended64(x) ==
    [h |-> 2 * x.hi + (8 * x.lo) \div 2^28, l |-> (8 * x.lo) % 2^28]

\* v shifted right by k bits; a non-zero lost part is kept in the last bit
Shift64(v, k) ==
    LET shifted ==
            IF k = 0 THEN [h |-> v.h, l |-> v.l, lost |-> FALSE]
            ELSE IF k < 28
            THEN [h |-> v.h \div 2^k,
                  l |-> v.l \div 2^k + (v.h % 2^k) * 2^(28 - k),
                  lost |-> v.l % 2^k # 0]
            ELSE IF k < 58
            THEN [h |-> 0,
                  l |-> v.h \div 2^(k - 28),
                  lost |-> v.h % 2^(k - 28) # 0 \/ v.l # 0]
            ELSE [h |-> 0, l |-> 0, lost |-> TRUE]
    IN  [h |-> shifted.h,
         l |-> IF shifted.lost /\ shifted.l % 2 = 0 THEN shifted.l + 1 ELSE shifted.l]

\* x + y
Add64(x, y) ==
    IF x = Zero64 THEN y
    ELSE IF y = Zero64 THEN x
    ELSE LET big == IF x.exp >= y.exp THEN x ELSE y
             small == IF x.exp >= y.exp THEN y ELSE x
             a == Extended64(big)
             b == Shift64(Extended64(small), big.exp - small.exp)
             low == a.l + b.l
             sum == [h |-> a.h + b.h + low \div 2^28, l |-> low % 2^28]
             carried == sum.h >= 2^28
             s == IF carried THEN Shift64(sum, 1) ELSE sum
             lo == (s.h % 2) * 2^25 + s.l \div 8
             grs == s.l % 8
         IN  Round64(s.h \div 2, lo, big.exp + (IF carried THEN 1 ELSE 0),
                     grs > 4 \/ (grs = 4 /\ lo % 2 = 1))

\* values.reduce((a, b) => a + b, 0)
RECURSIVE Sum(_)
Sum(s) == IF s = <<>> THEN 0 ELSE Head(s) + Sum(Tail(s))

RECURSIVE SumSq(_)
SumSq(s) == IF s = <<>> THEN 0 ELSE Head(s) * Head(s) + SumSq(Tail(s))

\* array.filter(Test).length
CountIf(s, Test(_)) == Cardinality({i \in 1..Len(s) : Test(s[i])})

\* [...a].sort((a, b) => a - b): insertion into an ascending sequence
RECURSIVE InsertAsc(_, _)
InsertAsc(x, s) ==
    IF s = <<>> THEN <<x>>
    ELSE IF x < Head(s) THEN <<x>> \o s
    ELSE <<Head(s)>> \o InsertAsc(x, Tail(s))

\* the array left in input order
Unsorted(s) == s

RECURSIVE SortAsc(_)
SortAsc(s) == IF s = <<>> THEN <<>> ELSE InsertAsc(Head(s), SortAsc(Tail(s)))

\* arr[i] with the 0-based index of the source
At(arr, i) == arr[i + 1]

\* Math.floor(length * 0.25), Math.floor(length * 0.75), Math.floor(length / 2)
FloorQuarter(len) == len \div 4
FloorThreeQuarters(len) == (3 * len) \div 4
\* the half rounded up
CeilHalf(len) == (len + 1) \div 2
FloorHalf(len) == len \div 2

(***************************************************************************)
(* Bounds and input domains                                                *)
(***************************************************************************)
MaxHistory == 10
MaxProbes == 2

\* RTT samples (ms) a probe can record, and timeout thresholds a caller passes
RttValues == {20, 400}
TimeoutThresholds == {100, 10000}

\* SpecStats: RTT samples and reported qualities of the summarised list
MaxSamples == 4
StatRtts == {10, 20, 30, 40}
StatQualities == {-1, 80}

\* SpecDurations: transitions of two devices
MaxTransitions == 2
MaxStored == 1
Devices == {"A", "B"}
TransitionKinds == {<<"Online", "Standby">>, <<"Standby", "Online">>,
                    <<"OFFLINE", "Online">>, <<"Calibrating", "OFFLINE">>}
Durations == {-1, 6000, 30000}

\* SpecSession: a session that starts on or off a minute boundary, a clock that
\* moves in half minutes
MaxHalfMinutes == 3
MaxSessionStored == 1
SessionStarts == {60000, 90000}

\* SpecType: histories of quick and slow probes, long enough to be classified
MaxTypeHistory == 10
TypeRtts == {100, 1000}
WiFiExample == <<100, 105, 110, 95, 102, 98, 103, 107, 99, 101>>

\* SpecTrend: stored histories whose two halves are level, grown by probes of
\* 111 ms; no history of these has halves that differ by a tenth exactly while
\* their averages are fractions
MaxTrendHistory == 21
MaxSleepHistory == 101

\* SpecFrame: a stored history that is not in ascending order, transitions
\* recorded with timestamps in any order
MaxFrameGrowth == 1
MaxFrameTransitions == 2
FrameRtts == <<400, 20, 400, 20, 20, 400, 20, 400, 20>>
FrameTimes == {1000, 2000}

\* SpecResponse: probes answered at once, quickly or slowly, by a device that is
\* online or on standby
MaxResponse == 4
ResponseRtts == {0, 20, 400}
ResponseStates == {"Online", "Standby"}

\* SpecBuckets: probes on Thursday 00:00, Thursday 01:00 and Friday 00:00
MaxBucket == 3
BucketTimes == {0, 3600000, 86400000}
BucketRtts == {20, 401}

\* SpecChrono: rows stored one second apart, the older half at one RTT and the
\* newer half at another; a request may name the time it starts from
MaxChrono == 21
ChronoLengths == {18, 19}
ChronoRtts == {90, 100, 111}
ProbeRtts == {90, 111}
RangeStarts == {0, 2000}

\* SpecReliable: stored histories around the ten samples of the stability
\* score, of answered probes and of probes at the timeout threshold
MaxReliable == 11
ReliableLengths == {8, 9}
ReliableRtts == {100, 9999, 10000}
ReliableStarts == {0, 2000, 1000000}

\* SpecStore: measurements of two sessions written to the table; a probe is a
\* timestamp with its RTT, the optional fields are absent, zero or positive
MaxInserted == 2
SessionIds == {"s1", "s2"}
StoredProbes == {<<1000, 0>>, <<2000, 20>>}

\* SpecContacts: requests of the clients for two numbers
MaxRequests == 3
ContactNumbers == {"491", "492"}

\* SpecReorder: stored histories of 163 and 164 measurements, one busy hour and
\* six or seven hours of ten measurements; lists of up to MaxPermuted elements
\* are compared with all their permutations, longer ones with their reversal
MaxReorderHistory == 165
MaxPermuted == 4
ReorderHours == {0, 7, 12, 13}
TrendLengths == {0, 4, 5, 9, 10, 19, 20}
TrendRtts == {0, 90, 100, 111}

\* SpecOrder: three transitions of two devices, durations of 0.1, 0.2 and 0.3 minutes
MaxOrder == 3
OrderKinds == {<<"Online", "Standby">>, <<"Standby", "Online">>}
OrderDurations == {6000, 12000, 18000}

\* SpecPatterns: probe times 00:00, 01:00, 05:30, 23:00 and 01:00 of the next day
MaxPattern == 3
PatternTimes == {0, 3600000, 19800000, 82800000, 90000000}
PatternStates == {"Online", "Standby"}

\* SpecCoord: probe times inside minutes 0, 0, 1 and 2
MaxCoord == 5
CoordTimes == {0, 30000, 61000, 120000}

\* SpecIdem: clock ticks of one minute
MaxClock == 3
MaxIdem == 2

NoResult == [kind |-> "none"]
\* no call has been made on the stored rows: no array was handed over
NoArguments == [rttHistory |-> <<>>, measurements |-> <<>>, transitions |-> <<>>]

(***************************************************************************)
(* NetworkIntelligence (networkIntelligence.ts)                            *)
(***************************************************************************)
\* Population variance, sum((v - mean)^2) / length.  With S = sum(v) and
\* Q = sum(v^2) this is (Q - S*S/length) / length; it is returned as its whole
\* part and a flag telling whether a fractional part remains, which keeps
\* every intermediate value inside 32 bits and every comparison exact.
calculateVariance(values) ==
    IF Len(values) = 0 THEN [whole |-> 0, frac |-> FALSE]
    ELSE LET len == Len(values)
             S == Sum(values)
             sq == S * (S \div len) + (S * (S % len)) \div len
             rem == (S * (S % len)) % len
             A == SumSq(values) - sq
         IN  IF rem = 0
             THEN [whole |-> A \div len, frac |-> A % len # 0]
             ELSE [whole |-> (A - 1) \div len, frac |-> TRUE]

VarLess(v, k) == v.whole < k
VarGreater(v, k) == v.whole > k \/ (v.whole = k /\ v.frac)

\* Math.sqrt(variance)
StdDev(values) == MathSqrt(calculateVariance(values).whole)

\* the score left as computed, without the clamp
Unclamped(x) == x

\* Math.max(0, Math.min(100, x))
Clamp100(x) == RMax(RInt(0), RMin(RInt(100), x))

\* the three positions read from the history as it was given
QuartilesUnsorted(rtts) ==
    [median |-> At(rtts, FloorHalf(Len(rtts))),
     q1 |-> At(rtts, FloorQuarter(Len(rtts))),
     q3 |-> At(rtts, FloorThreeQuarters(Len(rtts)))]

\* the order statistics sorted[floor(len * p)] of detectNetworkType
NetQuartiles(rtts) ==
    LET sorted == SortAsc(rtts)
    IN  [median |-> At(sorted, FloorHalf(Len(sorted))),
         q1 |-> At(sorted, FloorQuarter(Len(sorted))),
         q3 |-> At(sorted, FloorThreeQuarters(Len(sorted)))]

\* median < 500 && variance < 50000 && iqr < 200
isLikelyWiFi(rtts) ==
    LET q == NetQuartiles(rtts)
    IN  q.median < 500 /\ VarLess(calculateVariance(rtts), 50000) /\ q.q3 - q.q1 < 200

\* a Mobile test that starts below the WiFi limits
LooseMobile(rtts) ==
    LET q == NetQuartiles(rtts)
    IN  q.median > 80 \/ VarGreater(calculateVariance(rtts), 10000) \/ q.q3 - q.q1 > 40

\* median > 800 || variance > 100000 || iqr > 400
isLikelyMobile(rtts) ==
    LET q == NetQuartiles(rtts)
    IN  q.median > 800 \/ VarGreater(calculateVariance(rtts), 100000) \/ q.q3 - q.q1 > 400

\* the Mobile test made ahead of the WiFi test
MobileFirst(rtts) ==
    IF Len(rtts) < 10 THEN "Unknown"
    ELSE IF isLikelyMobile(rtts) THEN "Mobile"
    ELSE IF isLikelyWiFi(rtts) THEN "WiFi"
    ELSE "Unknown"

detectNetworkType(rtts) ==
    IF Len(rtts) < 10 THEN "Unknown"
    ELSE IF isLikelyWiFi(rtts) THEN "WiFi"
    ELSE IF isLikelyMobile(rtts) THEN "Mobile"
    ELSE "Unknown"

calculateNetworkQuality(rtts) ==
    IF Len(rtts) < 5 THEN 50
    ELSE LET len == Len(rtts)
             stdDev == StdDev(rtts)
             \* 100 - ((mean - 100) / 19) with mean = Sum / len
             latencyScore == Clamp100(Rat(2000 * len - Sum(rtts), 19 * len))
             \* 100 - ((stdDev - 50) / 4.5)
             stabilityScore == Clamp100(Rat(1000 - 2 * stdDev, 9))
             \* latencyScore * 0.6 + stabilityScore * 0.4
             mix == Rat(3 * latencyScore.n * stabilityScore.d
                          + 2 * stabilityScore.n * latencyScore.d,
                        5 * latencyScore.d * stabilityScore.d)
         IN  MathRound(mix.n, mix.d)

calculateConnectionStability(rtts) ==
    IF Len(rtts) < 10 THEN RInt(50)
    ELSE LET len == Len(rtts)
             S == Sum(rtts)
             stdDev == StdDev(rtts)
             \* mean > 0 ? (stdDev / mean) * 100 : 0
             cv == IF S > 0 THEN Rat(100 * stdDev * len, S) ELSE RInt(0)
             \* 100 - ((cv - 10) * 2.5)
         IN  Clamp100(RSub(RInt(125), Rat(5 * cv.n, 2 * cv.d)))

\* the halves compared from ten samples on
TrendFromTen(rtts) ==
    IF Len(rtts) < 10 THEN "stable"
    ELSE LET mid == FloorHalf(Len(rtts))
             firstHalf == SubSeq(rtts, 1, mid)
             secondHalf == SubSeq(rtts, mid + 1, Len(rtts))
             s1 == Sum(firstHalf)
             s2 == Sum(secondHalf)
             l1 == Len(firstHalf)
             l2 == Len(secondHalf)
         IN  IF s1 = 0
             THEN (IF s2 > 0 THEN "degrading" ELSE "stable")
             ELSE LET change == Rat(100 * (s2 * l1 - s1 * l2), s1 * l2)
                  IN  IF RLt(change, RInt(-10)) THEN "improving"
                      ELSE IF RLt(RInt(10), change) THEN "degrading"
                      ELSE "stable"

\* Division by a zero firstAvg gives +Infinity (degrading) when secondAvg is
\* positive and NaN (every comparison false, stable) when it is zero too.  The
\* quotient is carried exactly; the double the code computes can fall on the
\* other side of -10 or 10 only when the exact change is -10 or 10 and the
\* half averages are not whole numbers.
detectLatencyTrend(rtts) ==
    IF Len(rtts) < 20 THEN "stable"
    ELSE LET mid == FloorHalf(Len(rtts))
             firstHalf == SubSeq(rtts, 1, mid)
             secondHalf == SubSeq(rtts, mid + 1, Len(rtts))
             s1 == Sum(firstHalf)
             s2 == Sum(secondHalf)
             l1 == Len(firstHalf)
             l2 == Len(secondHalf)
         IN  IF s1 = 0
             THEN (IF s2 > 0 THEN "degrading" ELSE "stable")
             ELSE LET change == Rat(100 * (s2 * l1 - s1 * l2), s1 * l2)
                  IN  IF RLt(change, RInt(-10)) THEN "improving"
                      ELSE IF RLt(RInt(10), change) THEN "degrading"
                      ELSE "stable"

calculatePacketLossIndicator(rtts, timeoutThreshold) ==
    IF Len(rtts) < 5 THEN 0
    ELSE LET sorted == SortAsc(rtts)
             q3 == At(sorted, FloorThreeQuarters(Len(sorted)))
             iqr == q3 - At(sorted, FloorQuarter(Len(sorted)))
             \* rtt > q3 + 1.5 * iqr  ||  rtt > timeoutThreshold * 0.8
             IsOutlier(rtt) == 2 * rtt > 2 * q3 + 3 * iqr
                               \/ 5 * rtt > 4 * timeoutThreshold
             outliers == CountIf(rtts, IsOutlier)
             \* Math.round((outliers / length) * 100 * 10)
             scaled == MathRound(1000 * outliers, Len(rtts))
         IN  IF scaled < 100 THEN scaled ELSE 100

\* the weights of success rate and stability exchanged
ReliabilityOfStabilityFirst(rtts, totalProbes, timeoutThreshold) ==
    IF totalProbes = 0 THEN 0
    ELSE LET IsSuccess(rtt) == rtt < timeoutThreshold
             successfulProbes == CountIf(rtts, IsSuccess)
             successRate == Rat(100 * successfulProbes, totalProbes)
             stability == calculateConnectionStability(rtts)
             mix == Rat(3 * successRate.n * stability.d + 7 * stability.n * successRate.d,
                        10 * successRate.d * stability.d)
         IN  MathRound(mix.n, mix.d)

calculateConnectionReliability(rtts, totalProbes, timeoutThreshold) ==
    IF totalProbes = 0 THEN 0
    ELSE LET IsSuccess(rtt) == rtt < timeoutThreshold
             successfulProbes == CountIf(rtts, IsSuccess)
             successRate == Rat(100 * successfulProbes, totalProbes)
             stability == calculateConnectionStability(rtts)
             \* successRate * 0.7 + stability * 0.3
             mix == Rat(7 * successRate.n * stability.d + 3 * stability.n * successRate.d,
                        10 * successRate.d * stability.d)
         IN  MathRound(mix.n, mix.d)

DefaultTimeout == 10000

analyzeNetwork(rtts, totalProbes) ==
    [kind |-> "network",
     totalProbes |-> totalProbes,
     timeoutThreshold |-> DefaultTimeout,
     networkType |-> detectNetworkType(rtts),
     networkQuality |-> calculateNetworkQuality(rtts),
     connectionStability |-> calculateConnectionStability(rtts),
     latencyTrend |-> detectLatencyTrend(rtts),
     packetLossIndicator |-> calculatePacketLossIndicator(rtts, DefaultTimeout),
     connectionReliability |->
         calculateConnectionReliability(rtts, totalProbes, DefaultTimeout)]

\* the six scorers called one by one with explicit arguments
scoreHistory(rtts, totalProbes, timeoutThreshold) ==
    [kind |-> "network",
     totalProbes |-> totalProbes,
     timeoutThreshold |-> timeoutThreshold,
     networkType |-> detectNetworkType(rtts),
     networkQuality |-> calculateNetworkQuality(rtts),
     connectionStability |-> calculateConnectionStability(rtts),
     latencyTrend |-> detectLatencyTrend(rtts),
     packetLossIndicator |-> calculatePacketLossIndicator(rtts, timeoutThreshold),
     connectionReliability |->
         calculateConnectionReliability(rtts, totalProbes, timeoutThreshold)]

(***************************************************************************)
(* simple-statistics, as called by analytics.ts                            *)
(***************************************************************************)
\* stats.mean(x): sum / length
Mean(x) == Rat(Sum(x), Len(x))

\* stats.min(x), stats.max(x)
Min(x) == At(SortAsc(x), 0)
Max(x) == At(SortAsc(x), Len(x) - 1)

\* the nearest-rank order statistic sorted[floor(length * p)]
NearestRank(x, pn, pd) == RInt(At(SortAsc(x), (Len(x) * pn) \div pd))

\* stats.quantile(x, pn/pd) for 0 < pn/pd < 1: with idx = length * p on the
\* sorted copy, a fractional idx takes sorted[ceil(idx) - 1]; a whole idx
\* takes the average of sorted[idx - 1] and sorted[idx] when the length is
\* even and sorted[idx] when it is odd.
Quantile(x, pn, pd) ==
    LET sorted == SortAsc(x)
        len == Len(sorted)
        idx == (len * pn) \div pd
    IN  IF (len * pn) % pd # 0 THEN RInt(At(sorted, idx))
        ELSE IF len % 2 = 0 THEN Rat(At(sorted, idx - 1) + At(sorted, idx), 2)
        ELSE RInt(At(sorted, idx))

\* stats.median(x) is stats.quantile(x, 0.5)
Median(x) == Quantile(x, 1, 2)

\* stats.standardDeviation(x): square root of the population variance
StandardDeviation(x) == IF Len(x) = 1 THEN 0 ELSE StdDev(x)

(***************************************************************************)
(* AnalyticsEngine (analytics.ts)                                          *)
(***************************************************************************)
NoDuration == -1
NoQuality == -1
OfflineState == "OFFLINE"

\* measurements.map(m => m.rtt)
RttsOf(ms) == [i \in 1..Len(ms) |-> ms[i].rtt]

\* keys of a Map filled while walking the list: first-encounter order
\* (seen: the keys the Map holds already; a key is added where it first occurs)
EncounterOrder(keys, seen) ==
    LET first == {i \in 1..Len(keys) :
                     /\ \A j \in 1..Len(seen) : seen[j] # keys[i]
                     /\ \A j \in 1..(i - 1) : keys[j] # keys[i]}
        Nth(k) == CHOOSE i \in first : Cardinality({j \in first : j <= i}) = k
    IN  seen \o [k \in 1..Cardinality(first) |-> keys[Nth(k)]]

DeviceJidsOf(rows) == [i \in 1..Len(rows) |-> rows[i].deviceJid]

\* transitions.sort((a, b) => a.timestamp - b.timestamp): stable
RECURSIVE InsertByTimestamp(_, _)
InsertByTimestamp(t, s) ==
    IF s = <<>> THEN <<t>>
    ELSE IF t.timestamp < Head(s).timestamp THEN <<t>> \o s
    ELSE <<Head(s)>> \o InsertByTimestamp(t, Tail(s))

RECURSIVE SortByTimestamp(_)
SortByTimestamp(s) ==
    IF s = <<>> THEN <<>>
    ELSE InsertByTimestamp(s[Len(s)], SortByTimestamp(SubSeq(s, 1, Len(s) - 1)))

\* time spent in any other state counted as offline
AddDurationOfAnyState(durations, t) ==
    IF t.duration = NoDuration \/ t.duration = 0 THEN durations
    ELSE LET minutes == Div64(t.duration, 60 * 1000)
         IN  IF t.fromState = "Online"
             THEN [durations EXCEPT !.online = Add64(@, minutes)]
             ELSE IF t.fromState = "Standby"
             THEN [durations EXCEPT !.standby = Add64(@, minutes)]
             ELSE [durations EXCEPT !.offline = Add64(@, minutes)]

\* one step of the inner forEach: if (t.duration) durations[bucket] += minutes
AddDuration(durations, t) ==
    IF t.duration = NoDuration \/ t.duration = 0 THEN durations
    ELSE LET minutes == Div64(t.duration, 60 * 1000)
         IN  IF t.fromState = "Online"
             THEN [durations EXCEPT !.online = Add64(@, minutes)]
             ELSE IF t.fromState = "Standby"
             THEN [durations EXCEPT !.standby = Add64(@, minutes)]
             ELSE IF t.fromState = OfflineState
             THEN [durations EXCEPT !.offline = Add64(@, minutes)]
             ELSE durations

RECURSIVE AddDurations(_, _)
AddDurations(durations, sorted) ==
    IF sorted = <<>> THEN durations
    ELSE AddDurations(AddDuration(durations, Head(sorted)), Tail(sorted))

RECURSIVE DurationsByDevice(_, _, _)
DurationsByDevice(durations, devices, trans) ==
    IF devices = <<>> THEN durations
    ELSE LET OfDevice(t) == t.deviceJid = Head(devices)
             sorted == SortByTimestamp(SelectSeq(trans, OfDevice))
         IN  DurationsByDevice(AddDurations(durations, sorted), Tail(devices), trans)

calculateStateDurations(ms, trans) ==
    DurationsByDevice([online |-> Zero64, standby |-> Zero64, offline |-> Zero64],
                      EncounterOrder(DeviceJidsOf(trans), <<>>), trans)

\* networkQuality values that are neither null nor undefined
RECURSIVE QualitiesOf(_)
QualitiesOf(ms) ==
    IF ms = <<>> THEN <<>>
    ELSE (IF Head(ms).networkQuality = NoQuality THEN <<>>
          ELSE <<Head(ms).networkQuality>>) \o QualitiesOf(Tail(ms))

ZeroStatistics ==
    [kind |-> "statistics",
     rttDistribution |-> [min |-> RInt(0), max |-> RInt(0), mean |-> RInt(0),
                          median |-> RInt(0), stdDev |-> 0, q1 |-> RInt(0),
                          q3 |-> RInt(0), iqr |-> RInt(0)],
     stateDurations |-> [online |-> Zero64, standby |-> Zero64, offline |-> Zero64],
     transitionFrequency |-> [total |-> 0, onlineToStandby |-> 0, standbyToOnline |-> 0,
                              toOffline |-> 0, fromOffline |-> 0],
     networkQuality |-> [avgQuality |-> RInt(0), avgStability |-> 0, avgReliability |-> 0]]

rttDistributionOf(rtts) ==
    [min |-> RInt(Min(rtts)),
     max |-> RInt(Max(rtts)),
     mean |-> Mean(rtts),
     median |-> Median(rtts),
     stdDev |-> StandardDeviation(rtts),
     q1 |-> Quantile(rtts, 1, 4),
     q3 |-> Quantile(rtts, 3, 4),
     iqr |-> RSub(Quantile(rtts, 3, 4), Quantile(rtts, 1, 4))]

\* toOffline counted for transitions out of Online only
FrequencyOfOnlineToOffline(trans) ==
    LET OnlineToStandby(t) == t.fromState = "Online" /\ t.toState = "Standby"
        StandbyToOnline(t) == t.fromState = "Standby" /\ t.toState = "Online"
        ToOffline(t) == t.fromState = "Online" /\ t.toState = OfflineState
        FromOffline(t) == t.fromState = OfflineState
    IN  [total |-> Len(trans),
         onlineToStandby |-> CountIf(trans, OnlineToStandby),
         standbyToOnline |-> CountIf(trans, StandbyToOnline),
         toOffline |-> CountIf(trans, ToOffline),
         fromOffline |-> CountIf(trans, FromOffline)]

transitionFrequencyOf(trans) ==
    LET OnlineToStandby(t) == t.fromState = "Online" /\ t.toState = "Standby"
        StandbyToOnline(t) == t.fromState = "Standby" /\ t.toState = "Online"
        ToOffline(t) == t.toState = OfflineState
        FromOffline(t) == t.fromState = OfflineState
    IN  [total |-> Len(trans),
         onlineToStandby |-> CountIf(trans, OnlineToStandby),
         standbyToOnline |-> CountIf(trans, StandbyToOnline),
         toOffline |-> CountIf(trans, ToOffline),
         fromOffline |-> CountIf(trans, FromOffline)]

\* the empty-list guard protecting the RTT distribution only
StatisticsWithoutGuard(ms, trans) ==
    [kind |-> "statistics",
     rttDistribution |-> IF Len(ms) = 0 THEN ZeroStatistics.rttDistribution
                         ELSE rttDistributionOf(RttsOf(ms)),
     stateDurations |-> calculateStateDurations(ms, trans),
     transitionFrequency |-> transitionFrequencyOf(trans),
     networkQuality |-> ZeroStatistics.networkQuality]

performStatisticalAnalysis(ms, trans) ==
    IF Len(ms) = 0 THEN ZeroStatistics
    ELSE LET networkQualities == QualitiesOf(ms)
         IN  [kind |-> "statistics",
              rttDistribution |-> rttDistributionOf(RttsOf(ms)),
              stateDurations |-> calculateStateDurations(ms, trans),
              transitionFrequency |-> transitionFrequencyOf(trans),
              networkQuality |->
                  [avgQuality |-> IF Len(networkQualities) > 0
                                  THEN Mean(networkQualities) ELSE RInt(0),
                   avgStability |-> 0,
                   avgReliability |-> 0]]

\* date-fns getHours / getDay of new Date(timestamp); the server clock is
\* taken to run on UTC, and 1 January 1970 was a Thursday (day 4)
getHours(timestamp) == (timestamp \div 3600000) % 24
getDay(timestamp) == ((timestamp \div 86400000) + 4) % 7

\* the difference rounded to the nearest minute
RoundedMinutes(later, earlier) ==
    IF later >= earlier THEN (later - earlier + 30000) \div 60000
    ELSE -((earlier - later + 30000) \div 60000)

\* date-fns differenceInMinutes(later, earlier): truncated toward zero
differenceInMinutes(later, earlier) ==
    IF later >= earlier THEN (later - earlier) \div 60000
    ELSE -((earlier - later) \div 60000)

\* data.reduce((sum, m) => sum + m.rtt, 0): a sum of whole numbers, taken by
\* halves
RECURSIVE SumRtt(_)
SumRtt(ms) ==
    IF ms = <<>> THEN 0
    ELSE IF Len(ms) = 1 THEN ms[1].rtt
    ELSE LET half == Len(ms) \div 2
         IN  SumRtt(SubSeq(ms, 1, half)) + SumRtt(SubSeq(ms, half + 1, Len(ms)))

\* a test that every measurement passes
AnyState(m) == TRUE

IsOnline(m) == m.state = "Online"

\* the aggregate taken over the Online measurements of the bucket
BucketOfOnline(data) ==
    LET online == SelectSeq(data, IsOnline)
    IN  [avgActivity |-> Len(online),
         avgRTT |-> IF Len(online) > 0 THEN Rat(SumRtt(online), Len(online)) ELSE RInt(0),
         onlinePercentage |-> IF Len(data) > 0
                              THEN Rat(100 * Len(online), Len(data))
                              ELSE RInt(0)]

\* the aggregate of one bucket of the daily / weekly pattern
BucketPattern(data) ==
    [avgActivity |-> Len(data),
     avgRTT |-> IF Len(data) > 0 THEN Rat(SumRtt(data), Len(data)) ELSE RInt(0),
     onlinePercentage |-> IF Len(data) > 0
                          THEN Rat(100 * CountIf(data, IsOnline), Len(data))
                          ELSE RInt(0)]

dailyPattern(ms) ==
    [i \in 1..24 |->
        LET hour == i - 1
            InHour(m) == getHours(m.timestamp) = hour
            b == BucketPattern(SelectSeq(ms, InHour))
        IN  [hour |-> hour, avgActivity |-> b.avgActivity, avgRTT |-> b.avgRTT,
             onlinePercentage |-> b.onlinePercentage]]

weeklyPattern(ms) ==
    [i \in 1..7 |->
        LET day == i - 1
            OnDay(m) == getDay(m.timestamp) = day
            b == BucketPattern(SelectSeq(ms, OnDay))
        IN  [day |-> day, avgActivity |-> b.avgActivity, avgRTT |-> b.avgRTT,
             onlinePercentage |-> b.onlinePercentage]]

\* the heatmap key `${day}-${hour}` as the pair it is split back into
HeatmapKeysOf(ms) ==
    [i \in 1..Len(ms) |-> <<getDay(ms[i].timestamp), getHours(ms[i].timestamp)>>]

\* an entry for every hour of every day of the week, zero where empty
HeatmapOfEveryCell(ms) ==
    [i \in 1..(7 * 24) |->
        LET day == (i - 1) \div 24
            hour == (i - 1) % 24
            InCell(m) == getDay(m.timestamp) = day /\ getHours(m.timestamp) = hour
            data == SelectSeq(ms, InCell)
        IN  [hour |-> hour,
             day |-> day,
             activityLevel |-> IF Len(data) > 0
                               THEN Rat(100 * CountIf(data, IsOnline), Len(data))
                               ELSE RInt(0),
             avgRTT |-> IF Len(data) > 0 THEN Rat(SumRtt(data), Len(data)) ELSE RInt(0),
             measurementCount |-> Len(data)]]

heatmapOf(ms) ==
    LET keys == EncounterOrder(HeatmapKeysOf(ms), <<>>)
    IN  [i \in 1..Len(keys) |->
            LET InCell(m) == <<getDay(m.timestamp), getHours(m.timestamp)>> = keys[i]
                data == SelectSeq(ms, InCell)
            IN  [hour |-> keys[i][2],
                 day |-> keys[i][1],
                 activityLevel |-> Rat(100 * CountIf(data, IsOnline), Len(data)),
                 avgRTT |-> Rat(SumRtt(data), Len(data)),
                 measurementCount |-> Len(data)]]

analyzeActivityPatterns(ms) ==
    IF Len(ms) = 0
    THEN [kind |-> "patterns", daily |-> <<>>, weekly |-> <<>>, heatmap |-> <<>>]
    ELSE [kind |-> "patterns", daily |-> dailyPattern(ms), weekly |-> weeklyPattern(ms),
          heatmap |-> heatmapOf(ms)]

NoHour == -1
\* an absent (undefined, null) or zero sessionEndTime is falsy
NoEndTime == 0

\* .sort((a, b) => b.activity - a.activity): stable, descending by activity
\* an insertion that puts an entry ahead of its equals
RECURSIVE InsertAheadOfEquals(_, _)
InsertAheadOfEquals(e, s) ==
    IF s = <<>> THEN <<e>>
    ELSE IF e.activity >= Head(s).activity THEN <<e>> \o s
    ELSE <<Head(s)>> \o InsertAheadOfEquals(e, Tail(s))

RECURSIVE InsertByActivityDesc(_, _)
InsertByActivityDesc(e, s) ==
    IF s = <<>> THEN <<e>>
    ELSE IF e.activity > Head(s).activity THEN <<e>> \o s
    ELSE <<Head(s)>> \o InsertByActivityDesc(e, Tail(s))

RECURSIVE SortByActivityDesc(_)
SortByActivityDesc(s) ==
    IF s = <<>> THEN <<>>
    ELSE InsertByActivityDesc(s[Len(s)], SortByActivityDesc(SubSeq(s, 1, Len(s) - 1)))

\* .slice(0, k)
Slice(s, k) == SubSeq(s, 1, IF Len(s) < k THEN Len(s) ELSE k)

peakActivityTimesOf(daily) ==
    Slice(SortByActivityDesc([i \in 1..Len(daily) |->
                                 [hour |-> i - 1, activity |-> daily[i].avgActivity]]), 5)

\* .sort((a, b) => a[1] - b[1]) on [hour, count] entries: stable, ascending
RECURSIVE InsertByCount(_, _)
InsertByCount(e, s) ==
    IF s = <<>> THEN <<e>>
    ELSE IF e[2] < Head(s)[2] THEN <<e>> \o s
    ELSE <<Head(s)>> \o InsertByCount(e, Tail(s))

RECURSIVE SortByCount(_)
SortByCount(s) ==
    IF s = <<>> THEN <<>>
    ELSE InsertByCount(s[Len(s)], SortByCount(SubSeq(s, 1, Len(s) - 1)))

HoursOf(ms) == [i \in 1..Len(ms) |-> getHours(ms[i].timestamp)]

\* the Map hour -> count as its entries in insertion order
hourActivityOf(ms) ==
    LET hours == EncounterOrder(HoursOf(ms), <<>>)
    IN  [i \in 1..Len(hours) |->
            LET InHour(m) == getHours(m.timestamp) = hours[i]
            IN  <<hours[i], CountIf(ms, InHour)>>]

\* hourActivity.get(hour) || 0
ActivityAt(hourActivity, hour) ==
    IF \E i \in 1..Len(hourActivity) : hourActivity[i][1] = hour
    THEN hourActivity[CHOOSE i \in 1..Len(hourActivity) : hourActivity[i][1] = hour][2]
    ELSE 0

RECURSIVE SumCounts(_)
SumCounts(entries) == IF entries = <<>> THEN 0 ELSE Head(entries)[2] + SumCounts(Tail(entries))

FirstHour(hours) == IF hours = {} THEN NoHour ELSE CHOOSE h \in hours : \A g \in hours : h <= g

\* the first busy hour, the low-activity hours not skipped
WakeAmongAllHours(hourActivity, lowActivityHours) ==
    LET total == SumCounts(hourActivity)
        size == Len(hourActivity)
    IN  FirstHour({hour \in 0..23 : 2 * ActivityAt(hourActivity, hour) * size > 3 * total})

\* activity > avgActivity * 1.5 with avgActivity = total / hourActivity.size
findWakeTime(hourActivity, lowActivityHours) ==
    LET total == SumCounts(hourActivity)
        size == Len(hourActivity)
    IN  FirstHour({hour \in 0..23 :
                     /\ hour \notin lowActivityHours
                     /\ 2 * ActivityAt(hourActivity, hour) * size > 3 * total})

\* the first quiet hour of the day, with or without a measurement
SleepAmongAllHours(hourActivity, lowActivityHours) ==
    LET total == SumCounts(hourActivity)
        size == Len(hourActivity)
    IN  FirstHour({hour \in 0..23 : 2 * ActivityAt(hourActivity, hour) * size < total})

\* activity < avgActivity * 0.5
findSleepTime(hourActivity, lowActivityHours) ==
    LET total == SumCounts(hourActivity)
        size == Len(hourActivity)
    IN  FirstHour({hour \in 0..23 :
                     /\ hour \in lowActivityHours
                     /\ 2 * ActivityAt(hourActivity, hour) * size < total})

\* sleepPatternDetected taken from the truthiness of the two hours
DetectWithTruthyTimes(ms) ==
    IF Len(ms) < 100
    THEN [typicalWakeTime |-> NoHour, typicalSleepTime |-> NoHour,
          sleepPatternDetected |-> FALSE]
    ELSE LET hourActivity == hourActivityOf(ms)
             sortedHours == SortByCount(hourActivity)
             low == Slice(sortedHours, 6)
             lowActivityHours == {low[i][1] : i \in 1..Len(low)}
             wakeTime == findWakeTime(hourActivity, lowActivityHours)
             sleepTime == findSleepTime(hourActivity, lowActivityHours)
         IN  [typicalWakeTime |-> wakeTime, typicalSleepTime |-> sleepTime,
              sleepPatternDetected |-> wakeTime \notin {NoHour, 0}
                                          \/ sleepTime \notin {NoHour, 0}]

detectSleepWakePatterns(ms) ==
    IF Len(ms) < 100
    THEN [typicalWakeTime |-> NoHour, typicalSleepTime |-> NoHour,
          sleepPatternDetected |-> FALSE]
    ELSE LET hourActivity == hourActivityOf(ms)
             sortedHours == SortByCount(hourActivity)
             low == Slice(sortedHours, 6)
             lowActivityHours == {low[i][1] : i \in 1..Len(low)}
             wakeTime == findWakeTime(hourActivity, lowActivityHours)
             sleepTime == findSleepTime(hourActivity, lowActivityHours)
         IN  [typicalWakeTime |-> wakeTime, typicalSleepTime |-> sleepTime,
              sleepPatternDetected |-> wakeTime # NoHour \/ sleepTime # NoHour]

deviceUsagePatternsOf(ms) ==
    LET devices == EncounterOrder(DeviceJidsOf(ms), <<>>)
    IN  [i \in 1..Len(devices) |->
            LET OfDevice(m) == m.deviceJid = devices[i]
                deviceMeasurements == SelectSeq(ms, OfDevice)
            IN  [deviceJid |-> devices[i],
                 usagePercentage |-> Rat(100 * Len(deviceMeasurements), Len(ms)),
                 avgRTT |-> Rat(SumRtt(deviceMeasurements), Len(deviceMeasurements))]]

\* the timestamp kept to the millisecond
ExactTime(timestamp) == timestamp

\* Math.floor(m.timestamp / 60000) * 60000
MinuteOf(timestamp) == (timestamp \div 60000) * 60000

\* the number of devices whose timestamp set has the minute
ActiveDevicesAt(deviceTimestamps, minute) ==
    Cardinality({i \in 1..Len(deviceTimestamps) : minute \in deviceTimestamps[i]})

\* Array.from(allMinutes).reduce((sum, minute) => sum + activeDevices, 0)
RECURSIVE SumActiveDevices(_, _)
SumActiveDevices(deviceTimestamps, minutes) ==
    IF minutes = {} THEN 0
    ELSE LET minute == CHOOSE m \in minutes : TRUE
         IN  ActiveDevicesAt(deviceTimestamps, minute)
             + SumActiveDevices(deviceTimestamps, minutes \ {minute})

multiDeviceCoordinationOf(ms) ==
    LET devices == EncounterOrder(DeviceJidsOf(ms), <<>>)
        deviceTimestamps == [i \in 1..Len(devices) |->
                                {MinuteOf(ms[k].timestamp) :
                                    k \in {j \in 1..Len(ms) : ms[j].deviceJid = devices[i]}}]
        allMinutes == UNION {deviceTimestamps[i] : i \in 1..Len(devices)}
        simultaneousCount ==
            Cardinality({minute \in allMinutes :
                            ActiveDevicesAt(deviceTimestamps, minute) > 1})
        size == Cardinality(allMinutes)
    IN  [simultaneousDevices |-> Len(devices),
         avgSimultaneousDevices |-> IF size > 0
                                    THEN Rat(SumActiveDevices(deviceTimestamps, allMinutes), size)
                                    ELSE RInt(1),
         coordinationScore |-> IF size > 0 THEN Rat(100 * simultaneousCount, size)
                               ELSE RInt(0)]

responseTimePatternsOf(ms) ==
    LET responseTimes == RttsOf(SelectSeq(ms, IsOnline))
        some == Len(responseTimes) > 0
        avgResponseTime == IF some THEN Mean(responseTimes) ELSE RInt(0)
        responseTimeStdDev == IF some THEN StandardDeviation(responseTimes) ELSE 0
    IN  [avgResponseTime |-> avgResponseTime,
         fastestResponseTime |-> IF some THEN Min(responseTimes) ELSE 0,
         slowestResponseTime |-> IF some THEN Max(responseTimes) ELSE 0,
         \* 100 - ((stdDev / avg) * 100)
         responseTimeConsistency |->
             IF avgResponseTime.n > 0
             THEN Clamp100(RSub(RInt(100),
                                Rat(100 * responseTimeStdDev * avgResponseTime.d,
                                    avgResponseTime.n)))
             ELSE RInt(0)]

\* the session measured up to the clock even when it has ended
DurationToClock(start, end, clock) == differenceInMinutes(clock, start)

\* sessionEndTime ? differenceInMinutes(end, start) : differenceInMinutes(now, start)
sessionDurationOf(start, end, clock) ==
    IF end # NoEndTime THEN differenceInMinutes(end, start)
    ELSE differenceInMinutes(clock, start)

EmptyInsights ==
    [kind |-> "insights",
     averageSessionLength |-> 0,
     peakActivityTimes |-> <<>>,
     sleepWakeDetection |-> [typicalWakeTime |-> NoHour, typicalSleepTime |-> NoHour,
                             sleepPatternDetected |-> FALSE],
     deviceUsagePatterns |-> <<>>,
     multiDeviceCoordination |-> [simultaneousDevices |-> 0,
                                  avgSimultaneousDevices |-> RInt(0),
                                  coordinationScore |-> RInt(0)],
     responseTimePatterns |-> [avgResponseTime |-> RInt(0), fastestResponseTime |-> 0,
                               slowestResponseTime |-> 0,
                               responseTimeConsistency |-> RInt(0)]]

\* the session length computed before the empty list is turned away
InsightsWithSessionLength(ms, trans, start, end, clock) ==
    IF Len(ms) = 0
    THEN [EmptyInsights EXCEPT !.averageSessionLength = sessionDurationOf(start, end, clock)]
    ELSE [kind |-> "insights",
          averageSessionLength |-> sessionDurationOf(start, end, clock),
          peakActivityTimes |-> peakActivityTimesOf(analyzeActivityPatterns(ms).daily),
          sleepWakeDetection |-> detectSleepWakePatterns(ms),
          deviceUsagePatterns |-> deviceUsagePatternsOf(ms),
          multiDeviceCoordination |-> multiDeviceCoordinationOf(ms),
          responseTimePatterns |-> responseTimePatternsOf(ms)]

\* clock is the value new Date() reads during the call
generateBehavioralInsights(ms, trans, start, end, clock) ==
    IF Len(ms) = 0 THEN EmptyInsights
    ELSE [kind |-> "insights",
          averageSessionLength |-> sessionDurationOf(start, end, clock),
          peakActivityTimes |-> peakActivityTimesOf(analyzeActivityPatterns(ms).daily),
          sleepWakeDetection |-> detectSleepWakePatterns(ms),
          deviceUsagePatterns |-> deviceUsagePatternsOf(ms),
          multiDeviceCoordination |-> multiDeviceCoordinationOf(ms),
          responseTimePatterns |-> responseTimePatternsOf(ms)]

(***************************************************************************)
(* TrackingDatabase (database.ts)                                          *)
(***************************************************************************)
\* an absent or zero startTime / endTime adds no condition to the query
NoTime == 0
DefaultLimit == 10000

\* ORDER BY timestamp ASC
RECURSIVE InsertByTimestampAsc(_, _)
InsertByTimestampAsc(row, s) ==
    IF s = <<>> THEN <<row>>
    ELSE IF row.timestamp < Head(s).timestamp THEN <<row>> \o s
    ELSE <<Head(s)>> \o InsertByTimestampAsc(row, Tail(s))

\* ORDER BY timestamp DESC
RECURSIVE InsertByTimestampDesc(_, _)
InsertByTimestampDesc(row, s) ==
    IF s = <<>> THEN <<row>>
    ELSE IF row.timestamp > Head(s).timestamp THEN <<row>> \o s
    ELSE <<Head(s)>> \o InsertByTimestampDesc(row, Tail(s))

RECURSIVE OrderByTimestampAsc(_)
OrderByTimestampAsc(rows) ==
    IF rows = <<>> THEN <<>>
    ELSE InsertByTimestampAsc(rows[Len(rows)],
                              OrderByTimestampAsc(SubSeq(rows, 1, Len(rows) - 1)))

RECURSIVE OrderByTimestampDesc(_)
OrderByTimestampDesc(rows) ==
    IF rows = <<>> THEN <<>>
    ELSE InsertByTimestampDesc(rows[Len(rows)],
                               OrderByTimestampDesc(SubSeq(rows, 1, Len(rows) - 1)))

\* the query with its rows oldest first
MeasurementsOldestFirst(rows, startTime, endTime, limit) ==
    LET InRange(row) == /\ startTime # NoTime => row.timestamp >= startTime
                        /\ endTime # NoTime => row.timestamp <= endTime
    IN  Slice(OrderByTimestampAsc(SelectSeq(rows, InRange)), limit)

\* SELECT * FROM rtt_measurements WHERE jid = ? [AND timestamp >= ?]
\* [AND timestamp <= ?] ORDER BY timestamp DESC LIMIT ?, on the rows of the jid
getMeasurementsByJid(rows, startTime, endTime, limit) ==
    LET InRange(row) == /\ startTime # NoTime => row.timestamp >= startTime
                        /\ endTime # NoTime => row.timestamp <= endTime
    IN  Slice(OrderByTimestampDesc(SelectSeq(rows, InRange)), limit)

\* [networkQuality, avgRtt, medianRtt, threshold] of an inserted measurement
OptionalFields == {<<NoQuality, NoQuality, NoQuality, NoQuality>>,
                   <<0, 0, 0, 0>>,
                   <<80, 20, 20, 30>>}

\* the measurement object a tracker hands to insertMeasurement
StoredMeasurement(sessionId, probe, optional) ==
    [rtt |-> probe[2], networkQuality |-> optional[1], deviceJid |-> "A",
     timestamp |-> probe[1], state |-> "Online", sessionId |-> sessionId,
     avgRtt |-> optional[2], medianRtt |-> optional[3], threshold |-> optional[4]]

\* value || null: null for every falsy value, 0 among them; an absent field
\* and a NULL column are both NoQuality
OrNull(value) == IF value = 0 \/ value = NoQuality THEN NoQuality ELSE value

\* INSERT INTO rtt_measurements (...) VALUES (?, ...): the row of id
\* (AUTOINCREMENT) written for measurement
insertMeasurement(id, measurement) ==
    [id |-> id,
     session_id |-> measurement.sessionId,
     device_jid |-> measurement.deviceJid,
     rtt |-> measurement.rtt,
     timestamp |-> measurement.timestamp,
     state |-> measurement.state,
     network_quality |-> OrNull(measurement.networkQuality),
     avg_rtt |-> OrNull(measurement.avgRtt),
     median_rtt |-> OrNull(measurement.medianRtt),
     threshold |-> OrNull(measurement.threshold)]

\* rows.map(row => ({ id: row.id, sessionId: row.session_id, ... }))
MeasurementOfRow(row) ==
    [id |-> row.id,
     sessionId |-> row.session_id,
     deviceJid |-> row.device_jid,
     rtt |-> row.rtt,
     timestamp |-> row.timestamp,
     state |-> row.state,
     networkQuality |-> row.network_quality,
     avgRtt |-> row.avg_rtt,
     medianRtt |-> row.median_rtt,
     threshold |-> row.threshold]

\* SELECT * FROM rtt_measurements WHERE session_id = ? [AND timestamp >= ?]
\* [AND timestamp <= ?] ORDER BY timestamp ASC
getMeasurements(rows, sessionId, startTime, endTime) ==
    LET Selected(row) == /\ row.session_id = sessionId
                         /\ startTime # NoTime => row.timestamp >= startTime
                         /\ endTime # NoTime => row.timestamp <= endTime
        ordered == OrderByTimestampAsc(SelectSeq(rows, Selected))
    IN  [i \in 1..Len(ordered) |-> MeasurementOfRow(ordered[i])]

\* the table before the first insert
EmptyStore ==
    /\ rtt_measurements = <<>>
    /\ inserted = <<>>

(***************************************************************************)
(* Socket server (analytics.ts): trackers maps a JID to its tracker; a     *)
(* tracker is named by the number of the request that created it; running  *)
(* holds the trackers started and not stopped; handlers holds, for every   *)
(* add-contact request, its JID and the await it is suspended at.          *)
(***************************************************************************)
NoTracker == 0

\* number.replace(/\D/g, '') + '@s.whatsapp.net'
TargetJid(number) == number \o "@s.whatsapp.net"

ContactJids == {TargetJid(number) : number \in ContactNumbers}

\* const trackers = new Map(), no client connected yet
NoContacts ==
    /\ trackers = [jid \in ContactJids |-> NoTracker]
    /\ running = {}
    /\ handlers = <<>>

(***************************************************************************)
(* State machine.  The state is what the analytics endpoints read: the     *)
(* stored measurements and transitions, the session bounds and the clock;  *)
(* result is the response of the last analyzer call, previous the response *)
(* of the call before it on the same inputs, arguments the arrays handed   *)
(* to that call as the call left them.                                     *)
(***************************************************************************)
InitCommon ==
    /\ measurements = <<>>
    /\ transitions = <<>>
    /\ sessionStartTime = 0
    /\ sessionEndTime = NoEndTime
    /\ now = 0
    /\ result = NoResult
    /\ previous = NoResult
    /\ arguments = NoArguments
    /\ EmptyStore
    /\ NoContacts

\* the array after array.sort((a, b) => a - b) was called on it
AfterSortInPlace(array) == SortAsc(array)

\* the array after [...array].sort((a, b) => a - b): the spread copy is the
\* one that is sorted
AfterSortOfCopy(array) == array

\* rttHistory after the scorers: detectNetworkType (10 samples or more) and
\* calculatePacketLossIndicator (5 or more) sort, the others read
HistoryAfterScoring(rttHistory) ==
    LET afterType == IF Len(rttHistory) < 10 THEN rttHistory
                     ELSE AfterSortOfCopy(rttHistory)
    IN  IF Len(afterType) < 5 THEN afterType ELSE AfterSortOfCopy(afterType)

\* the transition list after calculateStateDurations: the arrays that are
\* sorted in place are the per-device arrays of the Map, filled by push (the
\* parameter of the forEach callback shadows the argument)
TransitionsAfterDurations(trans) == trans

ArgumentsOfScorers(rttHistory) ==
    [rttHistory |-> HistoryAfterScoring(rttHistory),
     measurements |-> <<>>, transitions |-> <<>>]

\* the analytics functions read the measurement list (forEach, map, filter)
ArgumentsOfAnalytics(ms, trans) ==
    [rttHistory |-> <<>>, measurements |-> ms, transitions |-> trans]

\* (the fields of the records below are written in the order in which TLC
\* keeps the fields of a record)
Measurement(deviceJid, rtt, timestamp, state, networkQuality) ==
    [rtt |-> rtt, networkQuality |-> networkQuality, deviceJid |-> deviceJid,
     timestamp |-> timestamp, state |-> state]

Transition(deviceJid, fromState, toState, timestamp, duration) ==
    [deviceJid |-> deviceJid, timestamp |-> timestamp, duration |-> duration,
     fromState |-> fromState, toState |-> toState]

\* a probe's measurement joins the list the analyzers are given
AddMeasurement(m, max) ==
    /\ Len(measurements) < max
    /\ measurements' = Append(measurements, m)
    /\ result' = NoResult
    /\ previous' = NoResult
    /\ arguments' = NoArguments
    /\ UNCHANGED <<store, server, transitions, sessionStartTime, sessionEndTime, now>>

\* a state change joins the transition list
AddTransition(t, max) ==
    /\ Len(transitions) < max
    /\ transitions' = Append(transitions, t)
    /\ result' = NoResult
    /\ previous' = NoResult
    /\ arguments' = NoArguments
    /\ UNCHANGED <<store, server, measurements, sessionStartTime, sessionEndTime, now>>

\* a call returns: the response, and the caller's arrays as the call left them;
\* the stored rows are not touched by an analyzer
Respond(response, args) ==
    /\ result' = response
    /\ previous' = IF result.kind = response.kind THEN result ELSE NoResult
    /\ arguments' = args
    /\ UNCHANGED <<store, server, measurements, transitions, sessionStartTime, sessionEndTime, now>>

\* the scorers run on rttHistory = measurements.map(m => m.rtt)
ScoreHistory(totalProbes, timeoutThreshold) ==
    Respond(scoreHistory(RttsOf(measurements), totalProbes, timeoutThreshold),
            ArgumentsOfScorers(RttsOf(measurements)))

AnalyzeActivityPatterns ==
    Respond(analyzeActivityPatterns(measurements),
            ArgumentsOfAnalytics(measurements, <<>>))

PerformStatisticalAnalysis ==
    Respond(performStatisticalAnalysis(measurements, transitions),
            ArgumentsOfAnalytics(measurements,
                                 IF Len(measurements) = 0 THEN transitions
                                 ELSE TransitionsAfterDurations(transitions)))

GenerateBehavioralInsights ==
    Respond(generateBehavioralInsights(measurements, transitions,
                                       sessionStartTime, sessionEndTime, now),
            ArgumentsOfAnalytics(measurements, transitions))

\* no response is outstanding: the specifications that do not compare two calls
\* issue one request for each stored state
Idle == result = NoResult

(***************************************************************************)
(* Spec: RTT histories of up to MaxHistory samples, scored and summarised  *)
(***************************************************************************)
Init == InitCommon

Next ==
    \/ \E rtt \in RttValues :
          AddMeasurement(Measurement("A", rtt, 0, "Online", NoQuality), MaxHistory)
    \/ Idle /\ \E tp \in 0..MaxProbes, th \in TimeoutThresholds : ScoreHistory(tp, th)
    \/ Idle /\ PerformStatisticalAnalysis

Spec == Init /\ [][Next]_vars

(***************************************************************************)
(* SpecStats: short lists of RTTs summarised by performStatisticalAnalysis *)
(***************************************************************************)
NextStats ==
    \/ \E rtt \in StatRtts, quality \in StatQualities :
          AddMeasurement(Measurement("A", rtt, 0, "Online", quality), MaxSamples)
    \/ Idle /\ PerformStatisticalAnalysis

SpecStats == Init /\ [][NextStats]_vars

(***************************************************************************)
(* SpecDurations: transitions of two devices, recorded one second apart    *)
(***************************************************************************)
NextDurations ==
    \/ AddMeasurement(Measurement("A", 20, 0, "Online", NoQuality), MaxStored)
    \/ \E device \in Devices, kind \in TransitionKinds, duration \in Durations :
          AddTransition(Transition(device, kind[1], kind[2],
                                   1000 * (Len(transitions) + 1), duration),
                        MaxTransitions)
    \/ Idle /\ PerformStatisticalAnalysis

SpecDurations == Init /\ [][NextDurations]_vars

(***************************************************************************)
(* SpecOrder: durations that are not whole fractions of a minute in binary *)
(***************************************************************************)
NextOrder ==
    \/ AddMeasurement(Measurement("A", 20, 0, "Online", NoQuality), MaxStored)
    \/ \E device \in Devices, kind \in OrderKinds, duration \in OrderDurations :
          AddTransition(Transition(device, kind[1], kind[2],
                                   1000 * (Len(transitions) + 1), duration),
                        MaxOrder)
    \/ Idle /\ PerformStatisticalAnalysis

SpecOrder == Init /\ [][NextOrder]_vars

(***************************************************************************)
(* SpecPatterns: measurements spread over hours and days; the store starts *)
(* empty or with one earlier measurement in each of the hours 8 to 12      *)
(***************************************************************************)
Backlog == [i \in 1..5 |-> Measurement("A", 20, (7 + i) * 3600000, "Online", NoQuality)]

InitPatterns ==
    /\ measurements \in {<<>>, Backlog}
    /\ transitions = <<>>
    /\ sessionStartTime = 0
    /\ sessionEndTime = NoEndTime
    /\ now = 0
    /\ result = NoResult
    /\ previous = NoResult
    /\ arguments = NoArguments
    /\ EmptyStore
    /\ NoContacts

\* the number of measurements the store started with
StoredAtStart ==
    IF measurements # <<>> /\ measurements[1] = Backlog[1] THEN Len(Backlog) ELSE 0

NextPatterns ==
    \/ \E timestamp \in PatternTimes, state \in PatternStates :
          AddMeasurement(Measurement("A", 20, timestamp, state, NoQuality),
                         MaxPattern + StoredAtStart)
    \/ Idle /\ AnalyzeActivityPatterns
    \/ Idle /\ GenerateBehavioralInsights

SpecPatterns == InitPatterns /\ [][NextPatterns]_vars

(***************************************************************************)
(* SpecCoord: two devices probed in time order, as getMeasurements returns *)
(* them (ORDER BY timestamp ASC)                                           *)
(***************************************************************************)
NextCoord ==
    \/ \E device \in Devices, timestamp \in CoordTimes :
          /\ measurements # <<>> => measurements[Len(measurements)].timestamp <= timestamp
          /\ AddMeasurement(Measurement(device, 20, timestamp, "Online", NoQuality), MaxCoord)
    \/ Idle /\ GenerateBehavioralInsights

SpecCoord == Init /\ [][NextCoord]_vars

(***************************************************************************)
(* SpecIdem: repeated calls while the clock runs and the session may close *)
(***************************************************************************)
\* a minute passes
Tick ==
    /\ now < MaxClock * 60000
    /\ now' = now + 60000
    /\ UNCHANGED <<store, server, measurements, transitions, sessionStartTime, sessionEndTime,
                   result, previous, arguments>>

\* the session is closed: its end time is the current time
EndSession ==
    /\ sessionEndTime = NoEndTime
    /\ sessionEndTime' = now
    /\ result' = NoResult
    /\ previous' = NoResult
    /\ arguments' = NoArguments
    /\ UNCHANGED <<store, server, measurements, transitions, sessionStartTime, now>>

AnalyzeNetwork ==
    Respond(analyzeNetwork(RttsOf(measurements), Len(measurements)),
            ArgumentsOfScorers(RttsOf(measurements)))

\* a client asks the same endpoint again: no other response since the last one
Again(kind) == result.kind \in {"none", kind}

NextIdem ==
    \/ AddMeasurement(Measurement("A", 20, now, "Online", NoQuality), MaxIdem)
    \/ AddTransition(Transition("A", "Online", "Standby", now, 30000), MaxStored)
    \/ Tick
    \/ EndSession
    \/ Again("network") /\ AnalyzeNetwork
    \/ Again("patterns") /\ AnalyzeActivityPatterns
    \/ Again("statistics") /\ PerformStatisticalAnalysis
    \/ Again("insights") /\ GenerateBehavioralInsights

SpecIdem == Init /\ [][NextIdem]_vars

(***************************************************************************)
(* SpecSession: insights of a session that is open or closed, asked at any *)
(* half minute                                                             *)
(***************************************************************************)
InitSession ==
    /\ measurements = <<>>
    /\ transitions = <<>>
    /\ sessionStartTime \in SessionStarts
    /\ sessionEndTime = NoEndTime
    /\ now = sessionStartTime
    /\ result = NoResult
    /\ previous = NoResult
    /\ arguments = NoArguments
    /\ EmptyStore
    /\ NoContacts

\* half a minute passes
HalfTick ==
    /\ now < sessionStartTime + MaxHalfMinutes * 30000
    /\ now' = now + 30000
    /\ UNCHANGED <<store, server, measurements, transitions, sessionStartTime, sessionEndTime,
                   result, previous, arguments>>

NextSession ==
    \/ AddMeasurement(Measurement("A", 20, now, "Online", NoQuality), MaxSessionStored)
    \/ AddTransition(Transition("A", "Online", "Standby", now, 30000), MaxSessionStored)
    \/ HalfTick
    \/ EndSession
    \/ Idle /\ GenerateBehavioralInsights

SpecSession == InitSession /\ [][NextSession]_vars

(***************************************************************************)
(* SpecType: network analysis of a history that starts empty or with the   *)
(* ten probes of the WiFi example                                          *)
(***************************************************************************)
InitType ==
    /\ measurements \in {<<>>, [i \in 1..Len(WiFiExample) |->
                                   Measurement("A", WiFiExample[i], 0, "Online", NoQuality)]}
    /\ transitions = <<>>
    /\ sessionStartTime = 0
    /\ sessionEndTime = NoEndTime
    /\ now = 0
    /\ result = NoResult
    /\ previous = NoResult
    /\ arguments = NoArguments
    /\ EmptyStore
    /\ NoContacts

NextType ==
    \/ \E rtt \in TypeRtts :
          AddMeasurement(Measurement("A", rtt, 0, "Online", NoQuality), MaxTypeHistory)
    \/ Idle /\ AnalyzeNetwork

SpecType == InitType /\ [][NextType]_vars

(***************************************************************************)
(* SpecTrend: the scorers on histories around their minimum lengths        *)
(***************************************************************************)
\* len stored probes: the first floor(len / 2) took a ms, the others b ms
TrendHistory(len, a, b) ==
    [i \in 1..len |->
        Measurement("A", IF i <= len \div 2 THEN a ELSE b, 0, "Online", NoQuality)]

InitTrend ==
    /\ measurements \in {TrendHistory(len, a, b) :
                             len \in TrendLengths, a \in TrendRtts, b \in TrendRtts}
    /\ transitions = <<>>
    /\ sessionStartTime = 0
    /\ sessionEndTime = NoEndTime
    /\ now = 0
    /\ result = NoResult
    /\ previous = NoResult
    /\ arguments = NoArguments
    /\ EmptyStore
    /\ NoContacts

NextTrend ==
    \/ AddMeasurement(Measurement("A", 111, 0, "Online", NoQuality), MaxTrendHistory)
    \/ Idle /\ \E totalProbes \in 0..MaxProbes, timeoutThreshold \in TimeoutThresholds :
                  ScoreHistory(totalProbes, timeoutThreshold)
    \/ Idle /\ AnalyzeNetwork

SpecTrend == InitTrend /\ [][NextTrend]_vars

(***************************************************************************)
(* SpecSleep: behavioural insights on histories of about 100 measurements  *)
(***************************************************************************)
\* the hours of the day in which further probes are taken
SleepHours == {0, 12}

\* count measurements taken in the given hour of the day, the device on standby
HourBlock(hour, count) ==
    [i \in 1..count |-> Measurement("A", 20, hour * 3600000, "Standby", NoQuality)]

RECURSIVE QuietHours(_)
QuietHours(quiet) ==
    IF quiet = 0 THEN <<>> ELSE QuietHours(quiet - 1) \o HourBlock(quiet, 10)

\* busy measurements in hour 0, then ten in each of the hours 1..quiet
DayHistory(busy, quiet) == HourBlock(0, busy) \o QuietHours(quiet)

\* stored histories of 97 and 98 measurements
SleepProfiles ==
    {<<total - 10 * quiet, quiet>> : total \in {97, 98}, quiet \in {0, 6, 7, 9}}

InitSleep ==
    /\ measurements \in {DayHistory(p[1], p[2]) : p \in SleepProfiles}
    /\ transitions = <<>>
    /\ sessionStartTime = 0
    /\ sessionEndTime = NoEndTime
    /\ now = 0
    /\ result = NoResult
    /\ previous = NoResult
    /\ arguments = NoArguments
    /\ EmptyStore
    /\ NoContacts

NextSleep ==
    \/ \E hour \in SleepHours :
          AddMeasurement(Measurement("A", 20, hour * 3600000, "Online", NoQuality),
                         MaxSleepHistory)
    \/ Idle /\ GenerateBehavioralInsights

SpecSleep == InitSleep /\ [][NextSleep]_vars

(***************************************************************************)
(* SpecFrame: every analyzer called on arrays that are not in sorted order *)
(***************************************************************************)
FrameHistory ==
    [i \in 1..Len(FrameRtts) |-> Measurement("A", FrameRtts[i], 0, "Online", NoQuality)]

InitFrame ==
    /\ measurements \in {<<>>, FrameHistory}
    /\ transitions = <<>>
    /\ sessionStartTime = 0
    /\ sessionEndTime = NoEndTime
    /\ now = 0
    /\ result = NoResult
    /\ previous = NoResult
    /\ arguments = NoArguments
    /\ EmptyStore
    /\ NoContacts

\* the number of measurements the store started with
StoredFrame == IF Len(measurements) >= Len(FrameHistory) THEN Len(FrameHistory) ELSE 0

NextFrame ==
    \/ \E rtt \in RttValues :
          AddMeasurement(Measurement("A", rtt, 0, "Online", NoQuality),
                         MaxFrameGrowth + StoredFrame)
    \/ \E device \in Devices, timestamp \in FrameTimes :
          AddTransition(Transition(device, "Online", "Standby", timestamp, 6000),
                        MaxFrameTransitions)
    \/ Idle /\ \E timeoutThreshold \in TimeoutThresholds : ScoreHistory(0, timeoutThreshold)
    \/ Idle /\ AnalyzeNetwork
    \/ Idle /\ AnalyzeActivityPatterns
    \/ Idle /\ PerformStatisticalAnalysis
    \/ Idle /\ GenerateBehavioralInsights

SpecFrame == InitFrame /\ [][NextFrame]_vars

(***************************************************************************)
(* SpecResponse: insights on measurements of mixed state and RTT           *)
(***************************************************************************)
NextResponse ==
    \/ \E rtt \in ResponseRtts, state \in ResponseStates :
          AddMeasurement(Measurement("A", rtt, 0, state, NoQuality), MaxResponse)
    \/ Idle /\ GenerateBehavioralInsights

SpecResponse == Init /\ [][NextResponse]_vars

(***************************************************************************)
(* SpecBuckets: activity patterns of measurements that share an hour or a  *)
(* day, listed in any order                                                *)
(***************************************************************************)
NextBuckets ==
    \/ \E timestamp \in BucketTimes, rtt \in BucketRtts, state \in ResponseStates :
          AddMeasurement(Measurement("A", rtt, timestamp, state, NoQuality), MaxBucket)
    \/ Idle /\ AnalyzeActivityPatterns

SpecBuckets == Init /\ [][NextBuckets]_vars

(***************************************************************************)
(* SpecReorder: insights and patterns on a day with hours of equal count   *)
(***************************************************************************)
ReorderProfiles ==
    {<<total - 10 * quiet, quiet>> : total \in {163, 164}, quiet \in {6, 7}}

InitReorder ==
    /\ measurements \in {DayHistory(p[1], p[2]) : p \in ReorderProfiles}
    /\ transitions = <<>>
    /\ sessionStartTime = 0
    /\ sessionEndTime = NoEndTime
    /\ now = 0
    /\ result = NoResult
    /\ previous = NoResult
    /\ arguments = NoArguments
    /\ EmptyStore
    /\ NoContacts

NextReorder ==
    \/ \E hour \in ReorderHours :
          AddMeasurement(Measurement("A", 20, hour * 3600000, "Online", NoQuality),
                         MaxReorderHistory)
    \/ Idle /\ AnalyzeActivityPatterns
    \/ Idle /\ GenerateBehavioralInsights

SpecReorder == InitReorder /\ [][NextReorder]_vars

(***************************************************************************)
(* SpecChrono: the network-analysis endpoint on rows stored in time order  *)
(***************************************************************************)
ChronoHistory(len, a, b) ==
    [i \in 1..len |->
        Measurement("A", IF i <= len \div 2 THEN a ELSE b, 1000 * i, "Online", NoQuality)]

InitChrono ==
    /\ measurements \in {ChronoHistory(len, a, b) :
                             len \in ChronoLengths, a \in ChronoRtts, b \in ChronoRtts}
    /\ transitions = <<>>
    /\ sessionStartTime = 0
    /\ sessionEndTime = NoEndTime
    /\ now = 0
    /\ result = NoResult
    /\ previous = NoResult
    /\ arguments = NoArguments
    /\ EmptyStore
    /\ NoContacts

\* GET /api/analytics/network-analysis/:jid?startTime=...; the response is kept
\* with the startTime of its request
NetworkAnalysis(startTime, endTime) ==
    LET fetched == getMeasurementsByJid(measurements, startTime, endTime, DefaultLimit)
        rttHistory == RttsOf(fetched)
    IN  Respond(analyzeNetwork(rttHistory, Len(fetched)) @@ [startTime |-> startTime],
                ArgumentsOfScorers(rttHistory))

NextChrono ==
    \/ \E rtt \in ProbeRtts :
          AddMeasurement(Measurement("A", rtt, 1000 * (Len(measurements) + 1),
                                     "Online", NoQuality), MaxChrono)
    \/ Idle /\ \E startTime \in RangeStarts : NetworkAnalysis(startTime, NoTime)

SpecChrono == InitChrono /\ [][NextChrono]_vars

(***************************************************************************)
(* SpecReliable: the endpoint on histories with probes that timed out      *)
(***************************************************************************)
InitReliable ==
    /\ measurements \in {ChronoHistory(len, a, b) :
                             len \in ReliableLengths, a \in ReliableRtts, b \in ReliableRtts}
    /\ transitions = <<>>
    /\ sessionStartTime = 0
    /\ sessionEndTime = NoEndTime
    /\ now = 0
    /\ result = NoResult
    /\ previous = NoResult
    /\ arguments = NoArguments
    /\ EmptyStore
    /\ NoContacts

NextReliable ==
    \/ \E rtt \in ReliableRtts :
          AddMeasurement(Measurement("A", rtt, 1000 * (Len(measurements) + 1),
                                     "Online", NoQuality), MaxReliable)
    \/ Idle /\ \E startTime \in ReliableStarts : NetworkAnalysis(startTime, NoTime)

SpecReliable == InitReliable /\ [][NextReliable]_vars

(***************************************************************************)
(* SpecStore: measurements written to the table and read back by session   *)
(***************************************************************************)
\* db.insertMeasurement(measurement)
InsertMeasurement(measurement) ==
    /\ Len(rtt_measurements) < MaxInserted
    /\ rtt_measurements' =
           Append(rtt_measurements,
                  insertMeasurement(Len(rtt_measurements) + 1, measurement))
    /\ inserted' = Append(inserted, measurement)
    /\ result' = NoResult
    /\ previous' = NoResult
    /\ arguments' = NoArguments
    /\ UNCHANGED <<server, measurements, transitions, sessionStartTime, sessionEndTime, now>>

\* const measurements = db.getMeasurements(session.id)
GetMeasurements(sessionId) ==
    /\ measurements' = getMeasurements(rtt_measurements, sessionId, NoTime, NoTime)
    /\ result' = NoResult
    /\ previous' = NoResult
    /\ arguments' = NoArguments
    /\ UNCHANGED <<store, server, transitions, sessionStartTime, sessionEndTime, now>>

NextStore ==
    \/ \E sessionId \in SessionIds, probe \in StoredProbes, optional \in OptionalFields :
          InsertMeasurement(StoredMeasurement(sessionId, probe, optional))
    \/ \E sessionId \in SessionIds : GetMeasurements(sessionId)
    \/ Idle /\ PerformStatisticalAnalysis

SpecStore == Init /\ [][NextStore]_vars

(***************************************************************************)
(* SpecContacts: add-contact and remove-contact requests, a handler        *)
(* running from one await to the next without interruption                 *)
(***************************************************************************)
Suspend(h, at) == handlers' = [handlers EXCEPT ![h].at = at]

\* socket.on('add-contact'), up to await sock.onWhatsApp(targetJid)
AddContact(number) ==
    /\ Len(handlers) < MaxRequests
    /\ handlers' = Append(handlers,
                          [jid |-> TargetJid(number),
                           at |-> IF trackers[TargetJid(number)] # NoTracker
                                  THEN "Already tracking this contact"
                                  ELSE "onWhatsApp"])
    /\ UNCHANGED <<analysis, store, trackers, running>>

\* sock.onWhatsApp answers that the number exists (result.jid is the JID asked
\* for): the tracker is created, stored in the map and started, up to
\* await tracker.getProfilePicture()
ContactExists(h) ==
    /\ handlers[h].at = "onWhatsApp"
    /\ trackers' = [trackers EXCEPT ![handlers[h].jid] = h]
    /\ running' = running \cup {h}
    /\ Suspend(h, "getProfilePicture")
    /\ UNCHANGED <<analysis, store>>

\* sock.onWhatsApp answers that the number does not exist
ContactUnknown(h) ==
    /\ handlers[h].at = "onWhatsApp"
    /\ Suspend(h, "Number not on WhatsApp")
    /\ UNCHANGED <<analysis, store, trackers, running>>

\* an await of the handler rejects
VerificationFailed(h) ==
    /\ handlers[h].at \in {"onWhatsApp", "getProfilePicture"}
    /\ Suspend(h, "Verification failed")
    /\ UNCHANGED <<analysis, store, trackers, running>>

\* the picture arrives, up to await sock.onWhatsApp(result.jid)
ProfilePicture(h) ==
    /\ handlers[h].at = "getProfilePicture"
    /\ Suspend(h, "contactName")
    /\ UNCHANGED <<analysis, store, trackers, running>>

\* the name arrives or its lookup fails: contact-added is emitted
ContactAdded(h) ==
    /\ handlers[h].at = "contactName"
    /\ Suspend(h, "contact-added")
    /\ UNCHANGED <<analysis, store, trackers, running>>

\* socket.on('remove-contact') for a JID the map holds
RemoveContact(jid) ==
    /\ trackers[jid] # NoTracker
    /\ running' = running \ {trackers[jid]}
    /\ trackers' = [trackers EXCEPT ![jid] = NoTracker]
    /\ UNCHANGED <<analysis, store, handlers>>

NextContacts ==
    \/ \E number \in ContactNumbers : AddContact(number)
    \/ \E h \in DOMAIN handlers : ContactExists(h)
    \/ \E h \in DOMAIN handlers : ContactUnknown(h)
    \/ \E h \in DOMAIN handlers : VerificationFailed(h)
    \/ \E h \in DOMAIN handlers : ProfilePicture(h)
    \/ \E h \in DOMAIN handlers : ContactAdded(h)
    \/ \E jid \in ContactJids : RemoveContact(jid)

SpecContacts == Init /\ [][NextContacts]_vars

(***************************************************************************)
(* Properties                                                              *)
(***************************************************************************)
InRange100(x) == RLe(RInt(0), x) /\ RLe(x, RInt(100))

\* C2: for every history of non-negative RTTs and every positive
\* timeoutThreshold, calculateNetworkQuality, calculateConnectionStability and
\* calculatePacketLossIndicator each return a value between 0 and 100.
C2_ScoresWithinRange ==
    result.kind = "network" =>
        /\ result.networkQuality \in 0..100
        /\ InRange100(result.connectionStability)
        /\ result.packetLossIndicator \in 0..100

\* a history long enough for every scorer to leave its default, whose
\* stability lies strictly inside the range and whose loss indicator saturates
C2_Witness ==
    /\ result.kind = "network"
    /\ Len(measurements) >= 10
    /\ RLt(RInt(0), result.connectionStability)
    /\ RLt(result.connectionStability, RInt(100))
    /\ result.networkQuality \notin {0, 50, 100}
    /\ result.packetLossIndicator = 100

\* C3 (as claimed): for every history and every totalProbes >= 0,
\* calculateConnectionReliability returns a value between 0 and 100.
C3_ReliabilityWithinRange ==
    result.kind = "network" => result.connectionReliability \in 0..100

\* C4: Q1 <= median <= Q3 and IQR = Q3 - Q1 >= 0, for rttDistribution and for
\* the floor(length * p) order statistics of detectNetworkType and
\* calculatePacketLossIndicator.
C4_QuartilesOrdered ==
    /\ (result.kind = "statistics" /\ measurements # <<>>) =>
           LET d == result.rttDistribution
           IN  /\ RLe(d.q1, d.median)
               /\ RLe(d.median, d.q3)
               /\ d.iqr = RSub(d.q3, d.q1)
               /\ RLe(RInt(0), d.iqr)
    /\ (result.kind = "network" /\ Len(measurements) >= 5) =>
           LET q == NetQuartiles(RttsOf(measurements))
           IN  /\ q.q1 <= q.median
               /\ q.median <= q.q3
               /\ q.q3 - q.q1 >= 0

\* an unsorted list whose three quartiles are pairwise different
C4_Witness ==
    /\ result.kind = "statistics"
    /\ Len(measurements) >= 10
    /\ measurements[1].rtt > measurements[2].rtt
    /\ RLt(result.rttDistribution.q1, result.rttDistribution.median)
    /\ RLt(result.rttDistribution.median, result.rttDistribution.q3)

\* C1 (as claimed): for every measurement list, the empty one included, the
\* daily pattern has exactly 24 entries (hours 0..23) and the weekly pattern
\* exactly 7 (days 0..6).
C1_FixedLengthPatterns ==
    result.kind = "patterns" =>
        /\ Len(result.daily) = 24
        /\ \A i \in 1..Len(result.daily) : result.daily[i].hour = i - 1
        /\ Len(result.weekly) = 7
        /\ \A i \in 1..Len(result.weekly) : result.weekly[i].day = i - 1

\* C5 (as claimed): a second call of an analyzer with the same arguments
\* returns what the first call returned, whatever happened in between.
C5_Idempotent == previous.kind # "none" => result = previous

WithoutSessionLength(insights) == [insights EXCEPT !.averageSessionLength = 0]

\* C5 (amended): the second response equals the first, except that
\* averageSessionLength follows the clock when the session has no end time.
C5_IdempotentUpToClock ==
    previous.kind # "none" =>
        IF result.kind = "insights" /\ sessionEndTime = NoEndTime
        THEN WithoutSessionLength(result) = WithoutSessionLength(previous)
        ELSE result = previous

\* insights asked twice for a session that ended before the clock moved on
C5_Witness ==
    /\ previous.kind = "insights"
    /\ result.kind = "insights"
    /\ measurements # <<>>
    /\ sessionEndTime # NoEndTime
    /\ now >= sessionEndTime + 60000
    /\ result.averageSessionLength > 0

Reorderings(n) == {f \in [1..n -> 1..n] : \A i, j \in 1..n : f[i] = f[j] => i = j}
Permuted(seq, f) == [i \in 1..Len(seq) |-> seq[f[i]]]

\* C6: stateDurations does not depend on the order in which the devices are
\* met: every reordering of the transition list gives the same three totals.
C6_DeviceOrderIndependent ==
    result.kind = "statistics" =>
        \A f \in Reorderings(Len(transitions)) :
            performStatisticalAnalysis(measurements, Permuted(transitions, f)).stateDurations
                = result.stateDurations

ActivityOfHour(hour) ==
    Cardinality({k \in 1..Len(measurements) :
                    (measurements[k].timestamp \div 3600000) % 24 = hour})

\* hour g ranks ahead of hour h: more activity, or the same and a smaller hour
RanksAhead(g, h) ==
    \/ ActivityOfHour(g) > ActivityOfHour(h)
    \/ ActivityOfHour(g) = ActivityOfHour(h) /\ g < h

\* C7: peakActivityTimes has at most 5 entries: the 5 hours with the highest
\* avgActivity, by activity descending, equal activity by hour ascending.
C7_PeakActivityTimes ==
    result.kind = "insights" =>
        LET peaks == result.peakActivityTimes
            hours == {peaks[i].hour : i \in 1..Len(peaks)}
        IN  /\ Len(peaks) <= 5
            /\ measurements # <<>> => Len(peaks) = 5
            /\ \A i \in 1..Len(peaks) :
                  /\ peaks[i].hour \in 0..23
                  /\ peaks[i].activity = ActivityOfHour(peaks[i].hour)
            /\ \A i, j \in 1..Len(peaks) : i < j => RanksAhead(peaks[i].hour, peaks[j].hour)
            /\ \A g \in hours, h \in (0..23) \ hours : RanksAhead(g, h)

\* the cut falls inside a group of equally active hours below a busier hour
C7_Witness ==
    /\ result.kind = "insights"
    /\ Len(result.peakActivityTimes) = 5
    /\ result.peakActivityTimes[1].activity > result.peakActivityTimes[2].activity
    /\ result.peakActivityTimes[4].activity = result.peakActivityTimes[5].activity
    /\ result.peakActivityTimes[5].activity > 0
    /\ \E h \in 0..23 : /\ h \notin {result.peakActivityTimes[i].hour : i \in 1..5}
                        /\ ActivityOfHour(h) = result.peakActivityTimes[5].activity

SortedExample == SortAsc(RttsOf(measurements)) = <<10, 20, 30, 40>>

\* C8 (as claimed): over the RTTs [10,20,30,40] rttDistribution is
\* min 10, max 40, mean 25, median 25, q1 20, q3 30, iqr 10.
C8_NearestRankExample ==
    (result.kind = "statistics" /\ SortedExample) =>
        LET d == result.rttDistribution
        IN  /\ d.min = RInt(10) /\ d.max = RInt(40) /\ d.mean = RInt(25)
            /\ d.median = RInt(25)
            /\ d.q1 = RInt(20) /\ d.q3 = RInt(30) /\ d.iqr = RInt(10)

\* C8 (amended): over the RTTs [10,20,30,40] rttDistribution is min 10, max 40,
\* mean 25, median 25, q1 15, q3 35, iqr 20; over three RTTs a <= b <= c the
\* quartiles are q1 = a, median = b, q3 = c.
C8_LibraryQuantileExample ==
    result.kind = "statistics" =>
        LET d == result.rttDistribution
            sorted == SortAsc(RttsOf(measurements))
        IN  /\ SortedExample =>
                  /\ d.min = RInt(10) /\ d.max = RInt(40) /\ d.mean = RInt(25)
                  /\ d.median = RInt(25)
                  /\ d.q1 = RInt(15) /\ d.q3 = RInt(35) /\ d.iqr = RInt(20)
            /\ Len(sorted) = 3 =>
                  /\ d.q1 = RInt(sorted[1]) /\ d.median = RInt(sorted[2])
                  /\ d.q3 = RInt(sorted[3]) /\ d.iqr = RInt(sorted[3] - sorted[1])

\* the four RTTs of the example, stored out of order
C8_Witness ==
    /\ result.kind = "statistics"
    /\ SortedExample
    /\ RttsOf(measurements) # <<10, 20, 30, 40>>

MinutesOfDevice(device) ==
    {measurements[k].timestamp - (measurements[k].timestamp % 60000) :
        k \in {j \in 1..Len(measurements) : measurements[j].deviceJid = device}}

DevicesSeen == {measurements[k].deviceJid : k \in 1..Len(measurements)}
ActiveMinutes == UNION {MinutesOfDevice(device) : device \in DevicesSeen}
SharedMinutes ==
    {minute \in ActiveMinutes :
        \E d1, d2 \in DevicesSeen :
            d1 # d2 /\ minute \in MinutesOfDevice(d1) /\ minute \in MinutesOfDevice(d2)}

CoordinationExample ==
    /\ MinutesOfDevice("A") = {0, 60000, 120000}
    /\ MinutesOfDevice("B") = {60000, 120000}

C10_EmptyStatistics ==
    (result.kind = "statistics" /\ measurements = <<>>) =>
        /\ \A field \in {"min", "max", "mean", "median", "q1", "q3", "iqr"} :
              result.rttDistribution[field] = RInt(0)
        /\ result.rttDistribution.stdDev = 0
        /\ \A state \in {"online", "standby", "offline"} :
              result.stateDurations[state] = Zero64
        /\ \A count \in {"total", "onlineToStandby", "standbyToOnline",
                         "toOffline", "fromOffline"} :
              result.transitionFrequency[count] = 0
        /\ result.networkQuality.avgQuality = RInt(0)
        /\ result.networkQuality.avgStability = 0
        /\ result.networkQuality.avgReliability = 0

\* no measurement, but transitions that carry durations
C10_Witness ==
    /\ result.kind = "statistics"
    /\ measurements = <<>>
    /\ Len(transitions) >= 2
    /\ \E i \in 1..Len(transitions) : transitions[i].duration > 0

\* C11: for an empty measurement list generateBehavioralInsights returns
\* averageSessionLength 0, no peak times, no device usage patterns, no sleep
\* pattern and neither a wake nor a sleep time, and zero in every field of
\* multiDeviceCoordination and responseTimePatterns, whatever the transitions
\* and the session's start and end times are.
C11_EmptyInsights ==
    (result.kind = "insights" /\ measurements = <<>>) =>
        /\ result.averageSessionLength = 0
        /\ result.peakActivityTimes = <<>>
        /\ result.deviceUsagePatterns = <<>>
        /\ result.sleepWakeDetection.sleepPatternDetected = FALSE
        /\ result.sleepWakeDetection.typicalWakeTime = NoHour
        /\ result.sleepWakeDetection.typicalSleepTime = NoHour
        /\ result.multiDeviceCoordination.simultaneousDevices = 0
        /\ result.multiDeviceCoordination.avgSimultaneousDevices = RInt(0)
        /\ result.multiDeviceCoordination.coordinationScore = RInt(0)
        /\ result.responseTimePatterns.avgResponseTime = RInt(0)
        /\ result.responseTimePatterns.fastestResponseTime = 0
        /\ result.responseTimePatterns.slowestResponseTime = 0
        /\ result.responseTimePatterns.responseTimeConsistency = RInt(0)

\* no measurement, but transitions, and a session that lasted over a minute
C11_Witness ==
    /\ result.kind = "insights"
    /\ measurements = <<>>
    /\ transitions # <<>>
    /\ sessionEndTime # NoEndTime
    /\ sessionEndTime >= sessionStartTime + 60000

\* the element at position k (from 0) of the history in ascending order
KthSmallest(rtts, k) ==
    CHOOSE v \in {rtts[i] : i \in 1..Len(rtts)} :
        /\ Cardinality({i \in 1..Len(rtts) : rtts[i] < v}) <= k
        /\ Cardinality({i \in 1..Len(rtts) : rtts[i] <= v}) > k

\* length^2 times the population variance: length * sum(v^2) - sum(v)^2
Spread(rtts) == Len(rtts) * SumSq(rtts) - Sum(rtts) * Sum(rtts)

ExpectedType(rtts) ==
    IF Len(rtts) < 10 THEN "Unknown"
    ELSE LET len == Len(rtts)
             median == KthSmallest(rtts, len \div 2)
             iqr == KthSmallest(rtts, (3 * len) \div 4) - KthSmallest(rtts, len \div 4)
         IN  IF median < 500 /\ Spread(rtts) < 50000 * len * len /\ iqr < 200
             THEN "WiFi"
             ELSE IF median > 800 \/ Spread(rtts) > 100000 * len * len \/ iqr > 400
             THEN "Mobile"
             ELSE "Unknown"

\* C12: detectNetworkType returns Unknown below 10 samples; from 10 samples on,
\* with median, Q1 and Q3 at index floor(length*p) of the sorted history and the
\* population variance, WiFi when median < 500, variance < 50000 and IQR < 200,
\* else Mobile when median > 800 or variance > 100000 or IQR > 400, else
\* Unknown; the history [100,105,110,95,102,98,103,107,99,101] is WiFi.
C12_NetworkType ==
    result.kind = "network" =>
        /\ result.networkType = ExpectedType(RttsOf(measurements))
        /\ RttsOf(measurements) = WiFiExample => result.networkType = "WiFi"

\* the example history has been classified
C12_Witness ==
    /\ result.kind = "network"
    /\ RttsOf(measurements) = WiFiExample

\* ten probes that are neither WiFi nor Mobile
C12_WitnessUnknown ==
    /\ result.kind = "network"
    /\ Len(measurements) = 10
    /\ result.networkType = "Unknown"

\* a history classified as Mobile
C12_WitnessMobile ==
    /\ result.kind = "network"
    /\ result.networkType = "Mobile"

\* C13: too few samples give the neutral value, never a failure: Unknown below
\* 10 samples, quality 50 below 5, stability 50 below 10, trend stable below
\* 20, packet loss 0 below 5, reliability 0 for totalProbes 0; analyzeNetwork
\* of an empty history with totalProbes 0 is {Unknown, 50, 50, stable, 0, 0}.
C13_NeutralDefaults ==
    result.kind = "network" =>
        LET len == Len(measurements)
        IN  /\ len < 10 => result.networkType = "Unknown"
            /\ len < 5 => result.networkQuality = 50
            /\ len < 10 => result.connectionStability = RInt(50)
            /\ len < 20 => result.latencyTrend = "stable"
            /\ len < 5 => result.packetLossIndicator = 0
            /\ result.totalProbes = 0 => result.connectionReliability = 0
            /\ (len = 0 /\ result.totalProbes = 0 /\ result.timeoutThreshold = DefaultTimeout) =>
                  /\ result.networkType = "Unknown"
                  /\ result.networkQuality = 50
                  /\ result.connectionStability = RInt(50)
                  /\ result.latencyTrend = "stable"
                  /\ result.packetLossIndicator = 0
                  /\ result.connectionReliability = 0

\* nineteen probes scored, whose halves differ by more than a tenth
C13_Witness ==
    /\ result.kind = "network"
    /\ Len(measurements) = 19
    /\ measurements[1].rtt = 100
    /\ measurements[19].rtt = 111

\* the empty history analysed
C13_WitnessEmpty ==
    /\ result.kind = "network"
    /\ measurements = <<>>
    /\ result.totalProbes = 0

\* the histories of SpecType that are long enough to be classified
TypeHistories == UNION {[1..n -> TypeRtts] : n \in 10..MaxTypeHistory}

\* C15: the WiFi and the Mobile condition of detectNetworkType are not mutually
\* exclusive: some history of at least 10 samples satisfies both, and testing
\* Mobile first would classify it differently.  The histories are those that
\* can still be stored when the store is empty.
C15_ConditionsOverlap ==
    measurements = <<>> =>
        \E rtts \in TypeHistories :
            /\ isLikelyWiFi(rtts)
            /\ isLikelyMobile(rtts)
            /\ MobileFirst(rtts) # detectNetworkType(rtts)

\* C15 (amended): no history satisfies both conditions, so the order of the two
\* tests never decides the result; a history that satisfies neither is Unknown.
C15_ConditionsExclusive ==
    (result.kind = "network" /\ Len(measurements) >= 10) =>
        LET rtts == RttsOf(measurements)
        IN  /\ ~(isLikelyWiFi(rtts) /\ isLikelyMobile(rtts))
            /\ MobileFirst(rtts) = result.networkType
            /\ (~isLikelyWiFi(rtts) /\ ~isLikelyMobile(rtts)) => result.networkType = "Unknown"

\* a classified history that fails the WiFi test on one count only
C15_Witness ==
    /\ result.kind = "network"
    /\ Len(measurements) >= 10
    /\ result.networkType = "Mobile"
    /\ NetQuartiles(RttsOf(measurements)).median < 500
    /\ NetQuartiles(RttsOf(measurements)).q3 = NetQuartiles(RttsOf(measurements)).q1

\* the number of stored transitions from one state (or any, "*") to another
TransitionsBetween(from, to) ==
    Cardinality({i \in 1..Len(transitions) :
                    /\ from \in {"*", transitions[i].fromState}
                    /\ to \in {"*", transitions[i].toState}})

CountsAsSupplied ==
    /\ result.transitionFrequency.total = Len(transitions)
    /\ result.transitionFrequency.onlineToStandby = TransitionsBetween("Online", "Standby")
    /\ result.transitionFrequency.standbyToOnline = TransitionsBetween("Standby", "Online")
    /\ result.transitionFrequency.toOffline = TransitionsBetween("*", "OFFLINE")
    /\ result.transitionFrequency.fromOffline = TransitionsBetween("OFFLINE", "*")

\* C16: for every measurement list and every transition list,
\* transitionFrequency.total is the number of supplied transitions,
\* onlineToStandby and standbyToOnline count the transitions with that pair of
\* states, toOffline those into the offline state, fromOffline those out of it.
C16_TransitionFrequency ==
    result.kind = "statistics" => CountsAsSupplied

\* C16 (amended): this holds for every non-empty measurement list; for the empty
\* measurement list the five counts are 0 whatever the transitions are.
C16_TransitionFrequencyOfMeasured ==
    result.kind = "statistics" =>
        IF measurements # <<>> THEN CountsAsSupplied
        ELSE \A count \in {"total", "onlineToStandby", "standbyToOnline",
                            "toOffline", "fromOffline"} :
                 result.transitionFrequency[count] = 0

\* a measured session with a transition into the offline state that does not
\* start from Online, and one out of it
C16_Witness ==
    /\ result.kind = "statistics"
    /\ measurements # <<>>
    /\ \E i, j \in 1..Len(transitions) :
          /\ transitions[i].fromState = "Calibrating"
          /\ transitions[i].toState = "OFFLINE"
          /\ transitions[j].fromState = "OFFLINE"

\* the stored transitions out of one state that carry a duration
Carrying(state) ==
    {i \in 1..Len(transitions) :
        transitions[i].fromState = state /\ transitions[i].duration # NoDuration}

\* duration/60000 of the transitions order[1], ..., order[n] added up in turn
RECURSIVE SumInOrder(_, _)
SumInOrder(order, n) ==
    IF n = 0 THEN Zero64
    ELSE Add64(SumInOrder(order, n - 1), Div64(transitions[order[n]].duration, 60000))

\* the sums of the terms duration/60000 of a set of transitions, one for each
\* order in which a number can add them up
SumsOf(indices) ==
    LET n == Cardinality(indices)
    IN  {SumInOrder(order, n) :
            order \in {f \in [1..n -> indices] : \A a, b \in 1..n : f[a] = f[b] => a = b}}

\* C17: for a non-empty measurement list stateDurations.online, .standby and
\* .offline are the sums of duration/60000 over the transitions of all devices
\* that carry a duration and leave Online, Standby and the offline state;
\* transitions without a duration or out of another state add to no bucket.
C17_StateDurations ==
    (result.kind = "statistics" /\ measurements # <<>>) =>
        /\ result.stateDurations.online \in SumsOf(Carrying("Online"))
        /\ result.stateDurations.standby \in SumsOf(Carrying("Standby"))
        /\ result.stateDurations.offline \in SumsOf(Carrying("OFFLINE"))

\* time in Calibrating and time in Online, on two devices
C17_Witness ==
    /\ result.kind = "statistics"
    /\ measurements # <<>>
    /\ \E i, j \in 1..Len(transitions) :
          /\ transitions[i].fromState = "Calibrating"
          /\ transitions[i].duration > 0
          /\ transitions[j].fromState = "Online"
          /\ transitions[j].duration > 0
          /\ transitions[i].deviceJid # transitions[j].deviceJid

\* the RTTs of the stored probes from position from to position to, added up
RECURSIVE RttSum(_, _)
RttSum(from, to) ==
    IF to < from THEN 0 ELSE measurements[to].rtt + RttSum(from, to - 1)

C18_WitnessImproving ==
    /\ result.kind = "network"
    /\ result.latencyTrend = "improving"

C18_WitnessTenth ==
    /\ result.kind = "network"
    /\ Len(measurements) = 20
    /\ measurements[1].rtt = 100
    /\ measurements[20].rtt = 90
    /\ result.latencyTrend = "stable"

\* C19: for a non-empty measurement list averageSessionLength is the number of
\* whole minutes from the session's start to its end when an end time is given,
\* and from its start to the time of the call when none is given.
C19_SessionLength ==
    [][(result'.kind = "insights" /\ now' = now /\ measurements' # <<>>) =>
          result'.averageSessionLength =
              IF sessionEndTime' # NoEndTime
              THEN (sessionEndTime' - sessionStartTime') \div 60000
              ELSE (now' - sessionStartTime') \div 60000]_vars

\* insights of a measured session that was closed after a minute and a half
C19_Witness ==
    /\ result.kind = "insights"
    /\ measurements # <<>>
    /\ sessionEndTime = sessionStartTime + 90000
    /\ result.averageSessionLength = 1

\* insights of a measured session that is still open after a minute and a half
C19_WitnessOpen ==
    /\ result.kind = "insights"
    /\ measurements # <<>>
    /\ sessionEndTime = NoEndTime
    /\ now = sessionStartTime + 90000
    /\ result.averageSessionLength = 1

\* C20: with fewer than 100 measurements sleepWakeDetection has
\* sleepPatternDetected = false and neither time; with 100 or more,
\* sleepPatternDetected is true exactly when typicalWakeTime or
\* typicalSleepTime is defined.
C20_SleepWakeDetection ==
    result.kind = "insights" =>
        LET detection == result.sleepWakeDetection
        IN  /\ Len(measurements) < 100 =>
                  /\ detection.sleepPatternDetected = FALSE
                  /\ detection.typicalWakeTime = NoHour
                  /\ detection.typicalSleepTime = NoHour
            /\ Len(measurements) >= 100 =>
                  (detection.sleepPatternDetected = TRUE <=>
                      \/ detection.typicalWakeTime # NoHour
                      \/ detection.typicalSleepTime # NoHour)

\* 100 measurements or more, a wake time at hour 0 and no sleep time
C20_Witness ==
    /\ result.kind = "insights"
    /\ Len(measurements) >= 100
    /\ result.sleepWakeDetection.typicalWakeTime = 0
    /\ result.sleepWakeDetection.typicalSleepTime = NoHour
    /\ result.sleepWakeDetection.sleepPatternDetected = TRUE

\* 99 measurements with one busy hour and six quiet ones
C20_WitnessShort ==
    /\ result.kind = "insights"
    /\ Len(measurements) = 99
    /\ measurements[1].timestamp # measurements[99].timestamp
    /\ result.sleepWakeDetection.sleepPatternDetected = FALSE

\* 100 measurements or more and neither time
C20_WitnessNone ==
    /\ result.kind = "insights"
    /\ Len(measurements) >= 100
    /\ result.sleepWakeDetection.sleepPatternDetected = FALSE

\* 100 measurements or more and a sleep time only
C20_WitnessSleep ==
    /\ result.kind = "insights"
    /\ Len(measurements) >= 100
    /\ result.sleepWakeDetection.typicalWakeTime = NoHour
    /\ result.sleepWakeDetection.typicalSleepTime # NoHour

C14_WitnessTransitions ==
    /\ result.kind = "statistics"
    /\ measurements # <<>>
    /\ Len(transitions) = 2
    /\ transitions[1].deviceJid = transitions[2].deviceJid
    /\ transitions[1].timestamp > transitions[2].timestamp
    /\ arguments.transitions = transitions

\* the number of measurements taken in the hour of the day
CountInHour(hour) ==
    Cardinality({i \in 1..Len(measurements) : getHours(measurements[i].timestamp) = hour})

\* the hours of the per-hour counts: those with a measurement
ObservedHours == {hour \in 0..23 : CountInHour(hour) > 0}

FirstSeen(hour) ==
    CHOOSE i \in 1..Len(measurements) :
        /\ getHours(measurements[i].timestamp) = hour
        /\ \A j \in 1..(i - 1) : getHours(measurements[j].timestamp) # hour

\* a lower count, or the same count and seen earlier in the list
RanksBelow(g, h) ==
    \/ CountInHour(g) < CountInHour(h)
    \/ CountInHour(g) = CountInHour(h) /\ FirstSeen(g) < FirstSeen(h)

LowestSix ==
    {h \in ObservedHours : Cardinality({g \in ObservedHours : RanksBelow(g, h)}) < 6}

SmallestHour(hours) ==
    IF hours = {} THEN NoHour ELSE CHOOSE h \in hours : \A g \in hours : h <= g

C21_WitnessBusyLow ==
    /\ result.kind = "insights"
    /\ Len(measurements) >= 100
    /\ \E h \in LowestSix : 2 * CountInHour(h) * Cardinality(ObservedHours)
                                  > 3 * Len(measurements)
    /\ result.sleepWakeDetection.typicalWakeTime = NoHour

\* C29: a reported typicalWakeTime or typicalSleepTime is an hour that has a
\* measurement; the wake time is never in the low-activity set, the sleep time
\* always is, and the two differ when both are defined.
C29_OnlyObservedHours ==
    result.kind = "insights" =>
        LET wake == result.sleepWakeDetection.typicalWakeTime
            sleep == result.sleepWakeDetection.typicalSleepTime
        IN  /\ wake # NoHour => (CountInHour(wake) > 0 /\ wake \notin LowestSix)
            /\ sleep # NoHour => (CountInHour(sleep) > 0 /\ sleep \in LowestSix)
            /\ (wake # NoHour /\ sleep # NoHour) => wake # sleep

\* a wake time at hour 0 and a sleep time at hour 12
C29_Witness ==
    /\ result.kind = "insights"
    /\ result.sleepWakeDetection.typicalWakeTime = 0
    /\ result.sleepWakeDetection.typicalSleepTime = 12

\* the positions of the measurements whose state is Online
OnlineAt == {i \in 1..Len(measurements) : measurements[i].state = "Online"}

RECURSIVE RttTotal(_)
RttTotal(indices) ==
    IF indices = {} THEN 0
    ELSE LET i == CHOOSE j \in indices : TRUE
         IN  measurements[i].rtt + RttTotal(indices \ {i})

\* C22: responseTimePatterns is computed from the Online measurements only:
\* avg, fastest and slowest are the mean, minimum and maximum of their RTTs
\* (fastest <= avg <= slowest), responseTimeConsistency is
\* 100 - stdDev / mean * 100 kept within 0..100; all four are 0 without an
\* Online measurement and the consistency is 0 when the mean is 0.
C22_ResponseTimePatterns ==
    (result.kind = "insights" /\ measurements # <<>>) =>
        LET r == result.responseTimePatterns
            avg == Rat(RttTotal(OnlineAt), Cardinality(OnlineAt))
            stdDev == StandardDeviation(RttsOf(SelectSeq(measurements, IsOnline)))
        IN  IF OnlineAt = {}
            THEN /\ r.avgResponseTime = RInt(0)
                 /\ r.fastestResponseTime = 0
                 /\ r.slowestResponseTime = 0
                 /\ r.responseTimeConsistency = RInt(0)
            ELSE /\ r.avgResponseTime = avg
                 /\ \E i \in OnlineAt : measurements[i].rtt = r.fastestResponseTime
                 /\ \A i \in OnlineAt : measurements[i].rtt >= r.fastestResponseTime
                 /\ \E i \in OnlineAt : measurements[i].rtt = r.slowestResponseTime
                 /\ \A i \in OnlineAt : measurements[i].rtt <= r.slowestResponseTime
                 /\ RLe(RInt(r.fastestResponseTime), r.avgResponseTime)
                 /\ RLe(r.avgResponseTime, RInt(r.slowestResponseTime))
                 /\ InRange100(r.responseTimeConsistency)
                 /\ r.responseTimeConsistency =
                       IF avg.n = 0 THEN RInt(0)
                       ELSE LET raw == RSub(RInt(100), Rat(100 * stdDev * avg.d, avg.n))
                            IN  IF RLt(raw, RInt(0)) THEN RInt(0)
                                ELSE IF RLt(RInt(100), raw) THEN RInt(100) ELSE raw

\* Online and Standby measurements of different RTTs, a consistency strictly
\* inside the range
C22_Witness ==
    /\ result.kind = "insights"
    /\ OnlineAt # {}
    /\ \E i \in 1..Len(measurements) :
          /\ i \notin OnlineAt
          /\ measurements[i].rtt > result.responseTimePatterns.slowestResponseTime
    /\ result.responseTimePatterns.fastestResponseTime
          < result.responseTimePatterns.slowestResponseTime
    /\ RLt(RInt(0), result.responseTimePatterns.responseTimeConsistency)
    /\ RLt(result.responseTimePatterns.responseTimeConsistency, RInt(100))

\* measurements, none of them Online
C22_WitnessNoneOnline ==
    /\ result.kind = "insights"
    /\ measurements # <<>>
    /\ OnlineAt = {}

\* Online measurements that all took 0 ms
C22_WitnessZeroMean ==
    /\ result.kind = "insights"
    /\ OnlineAt # {}
    /\ result.responseTimePatterns.avgResponseTime = RInt(0)
    /\ result.responseTimePatterns.responseTimeConsistency = RInt(0)

\* a deviation above the mean: the consistency is held at 0
C22_WitnessClamped ==
    /\ result.kind = "insights"
    /\ result.responseTimePatterns.avgResponseTime.n > 0
    /\ StandardDeviation(RttsOf(SelectSeq(measurements, IsOnline))) * result.responseTimePatterns.avgResponseTime.d
          > result.responseTimePatterns.avgResponseTime.n
    /\ result.responseTimePatterns.responseTimeConsistency = RInt(0)

\* the positions of the measurements taken in the hour of the day, on the day
\* of the week, and in the hour of that day
AtHour(hour) == {i \in 1..Len(measurements) : getHours(measurements[i].timestamp) = hour}
OnWeekday(day) == {i \in 1..Len(measurements) : getDay(measurements[i].timestamp) = day}
InPair(day, hour) == OnWeekday(day) \cap AtHour(hour)

\* count, mean RTT and share of Online measurements at the positions
Aggregated(at) ==
    [avgActivity |-> Cardinality(at),
     avgRTT |-> IF at = {} THEN RInt(0) ELSE Rat(RttTotal(at), Cardinality(at)),
     onlinePercentage |-> IF at = {} THEN RInt(0)
                          ELSE Rat(100 * Cardinality(at \cap OnlineAt), Cardinality(at))]

\* C23: for a non-empty measurement list the daily entry at index h (0..23) has
\* hour = h, avgActivity = the number of measurements of that hour of the day,
\* avgRTT = their mean RTT (0 if none) and onlinePercentage = 100 * Online
\* ones / count (0 if none); the weekly pattern is the same aggregation by day
\* of the week 0..6.
C23_DailyAndWeekly ==
    (result.kind = "patterns" /\ measurements # <<>>) =>
        /\ Len(result.daily) = 24
        /\ \A hour \in 0..23 :
              LET entry == result.daily[hour + 1]
                  expected == Aggregated(AtHour(hour))
              IN  /\ entry.hour = hour
                  /\ entry.avgActivity = expected.avgActivity
                  /\ entry.avgRTT = expected.avgRTT
                  /\ entry.onlinePercentage = expected.onlinePercentage
        /\ Len(result.weekly) = 7
        /\ \A day \in 0..6 :
              LET entry == result.weekly[day + 1]
                  expected == Aggregated(OnWeekday(day))
              IN  /\ entry.day = day
                  /\ entry.avgActivity = expected.avgActivity
                  /\ entry.avgRTT = expected.avgRTT
                  /\ entry.onlinePercentage = expected.onlinePercentage

\* an hour shared by two days and a day with two hours, Online and Standby
\* measurements of different RTTs in one bucket
C23_Witness ==
    /\ result.kind = "patterns"
    /\ Cardinality(AtHour(0)) = 2
    /\ Cardinality(OnWeekday(4)) = 2
    /\ Cardinality(OnWeekday(5)) = 1
    /\ result.daily[1].onlinePercentage = RInt(50)
    /\ result.daily[1].avgRTT = Rat(421, 2)
    /\ result.daily[3].avgActivity = 0

\* C24: the heatmap has exactly one entry for each (day, hour) pair that has a
\* measurement and none for any other pair; measurementCount is the number of
\* measurements of the pair and activityLevel is 100 * Online ones / count.
C24_SparseHeatmap ==
    result.kind = "patterns" =>
        /\ \A day \in 0..6, hour \in 0..23 :
              Cardinality({i \in 1..Len(result.heatmap) :
                              /\ result.heatmap[i].day = day
                              /\ result.heatmap[i].hour = hour})
                  = IF InPair(day, hour) = {} THEN 0 ELSE 1
        /\ \A i \in 1..Len(result.heatmap) :
              LET entry == result.heatmap[i]
                  at == InPair(entry.day, entry.hour)
              IN  /\ entry.day \in 0..6
                  /\ entry.hour \in 0..23
                  /\ entry.measurementCount = Cardinality(at)
                  /\ entry.activityLevel =
                        Rat(100 * Cardinality(at \cap OnlineAt), Cardinality(at))

\* three measurements in two pairs, the busier pair with one Online in two
C24_Witness ==
    /\ result.kind = "patterns"
    /\ Len(measurements) = 3
    /\ Len(result.heatmap) = 2
    /\ \E i \in 1..2 : /\ result.heatmap[i].measurementCount = 2
                        /\ result.heatmap[i].activityLevel = RInt(50)

\* no measurement, no entry
C24_WitnessEmpty ==
    /\ result.kind = "patterns"
    /\ measurements = <<>>
    /\ result.heatmap = <<>>

Reversed(seq) == [i \in 1..Len(seq) |-> seq[Len(seq) + 1 - i]]

\* the same elements in another order
Rearranged(seq) ==
    IF Len(seq) <= MaxPermuted
    THEN {Permuted(seq, f) : f \in Reorderings(Len(seq))}
    ELSE {Reversed(seq)}

EntriesOf(seq) == {seq[i] : i \in 1..Len(seq)}

\* C25: for every permutation of the measurement list analyzeActivityPatterns
\* returns the same daily and weekly patterns and the same set of heatmap
\* entries, performStatisticalAnalysis the same rttDistribution, and
\* generateBehavioralInsights the same peakActivityTimes, sleepWakeDetection,
\* multiDeviceCoordination and responseTimePatterns.
C25_InputOrderIndependent ==
    \A ms \in Rearranged(measurements) :
        /\ result.kind = "patterns" =>
              LET other == analyzeActivityPatterns(ms)
              IN  /\ other.daily = result.daily
                  /\ other.weekly = result.weekly
                  /\ EntriesOf(other.heatmap) = EntriesOf(result.heatmap)
        /\ result.kind = "statistics" =>
              performStatisticalAnalysis(ms, transitions).rttDistribution
                  = result.rttDistribution
        /\ result.kind = "insights" =>
              LET other == generateBehavioralInsights(ms, transitions, sessionStartTime,
                                                      sessionEndTime, now)
              IN  /\ other.peakActivityTimes = result.peakActivityTimes
                  /\ other.sleepWakeDetection = result.sleepWakeDetection
                  /\ other.multiDeviceCoordination = result.multiDeviceCoordination
                  /\ other.responseTimePatterns = result.responseTimePatterns

\* the measurements the request of the last response fetched, oldest first
FetchedOldestFirst ==
    MeasurementsOldestFirst(measurements, result.startTime, NoTime, DefaultLimit)

RECURSIVE RttOver(_, _, _)
RttOver(rows, from, to) ==
    IF from > to THEN 0 ELSE rows[from].rtt + RttOver(rows, from + 1, to)

\* C26: for a peer with at least 20 fetched measurements the endpoint reports
\* degrading exactly when the chronologically later half of them has an
\* average RTT more than 10 % above that of the earlier half, and improving
\* exactly when it is more than 10 % below.
C26_ChronologicalTrend ==
    (result.kind = "network" /\ "startTime" \in DOMAIN result
        /\ Len(FetchedOldestFirst) >= 20) =>
        LET rows == FetchedOldestFirst
            mid == Len(rows) \div 2
            earlier == Rat(RttOver(rows, 1, mid), mid)
            later == Rat(RttOver(rows, mid + 1, Len(rows)), Len(rows) - mid)
        IN  /\ result.latencyTrend = "degrading"
                  <=> 10 * later.n * earlier.d > 11 * earlier.n * later.d
            /\ result.latencyTrend = "improving"
                  <=> 10 * later.n * earlier.d < 9 * earlier.n * later.d

\* the fetched measurements whose probe was answered before the timeout
AnsweredInTime ==
    {i \in 1..Len(FetchedOldestFirst) : FetchedOldestFirst[i].rtt < 10000}

C30_WitnessNoneFetched ==
    /\ result.kind = "network" /\ "startTime" \in DOMAIN result
    /\ Len(measurements) > 0
    /\ Len(FetchedOldestFirst) = 0
    /\ result.connectionReliability = 0

\* every fetched probe answered, steady: the full score
C30_WitnessFull ==
    /\ result.kind = "network" /\ "startTime" \in DOMAIN result
    /\ Len(FetchedOldestFirst) >= 10
    /\ result.connectionReliability = 100

\* the optional fields and the required ones are those of the inserted object
SameFields(read, written) ==
    /\ read.rtt = written.rtt
    /\ read.timestamp = written.timestamp
    /\ read.state = written.state
    /\ read.deviceJid = written.deviceJid
    /\ read.networkQuality = written.networkQuality
    /\ read.avgRtt = written.avgRtt
    /\ read.medianRtt = written.medianRtt
    /\ read.threshold = written.threshold

\* the network qualities the given measurements were inserted with
InsertedQualities(ms) ==
    LET Carried(quality) == quality # NoQuality
    IN  SelectSeq([i \in 1..Len(ms) |-> inserted[ms[i].id].networkQuality], Carried)

\* C28: every measurement stored with insertMeasurement is read back by
\* getMeasurements for its session, once, with the rtt, timestamp, state,
\* deviceJid, networkQuality, avgRtt, medianRtt and threshold it was inserted
\* with, 0 included; and the avgQuality of the measurements read back is the
\* average of the network qualities inserted, zeros counted.
C28_RoundTrip ==
    /\ \A sessionId \in SessionIds :
          LET read == getMeasurements(rtt_measurements, sessionId, NoTime, NoTime)
          IN  /\ \A k \in 1..Len(inserted) :
                    inserted[k].sessionId = sessionId =>
                        Cardinality({i \in 1..Len(read) : read[i].id = k}) = 1
              /\ \A i \in 1..Len(read) : SameFields(read[i], inserted[read[i].id])
    /\ (result.kind = "statistics" /\ Len(measurements) > 0) =>
          LET carried == InsertedQualities(measurements)
          IN  result.networkQuality.avgQuality =
                  IF Len(carried) > 0 THEN Mean(carried) ELSE RInt(0)

\* C28 without the zeros: the round trip of the measurements whose optional
\* fields are absent or positive
C28_RoundTripOfNonZero ==
    \A sessionId \in SessionIds :
        LET read == getMeasurements(rtt_measurements, sessionId, NoTime, NoTime)
        IN  \A i \in 1..Len(read) :
                inserted[read[i].id].networkQuality # 0 =>
                    SameFields(read[i], inserted[read[i].id])

\* the tracker of handler h was started and not stopped
Running(h) == h \in running

\* C27: under every interleaving of the add-contact and remove-contact
\* handlers, every tracker started and not stopped is the tracker the map
\* holds under its JID, so that no JID has two running trackers and
\* remove-contact reaches every running tracker.
C27_RunningTrackersInMap ==
    /\ \A h \in DOMAIN handlers : Running(h) => trackers[handlers[h].jid] = h
    /\ \A jid \in ContactJids :
          Cardinality({h \in DOMAIN handlers : Running(h) /\ handlers[h].jid = jid}) <= 1
====
